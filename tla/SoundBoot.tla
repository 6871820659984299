----------------------------- MODULE SoundBoot -----------------------------
(***************************************************************************)
(* How an application gets to the sound service: system_server registers   *)
(* the native methods of SoundService, constructs it and publishes it,     *)
(* while threads ask their contexts for a SoundManager, which each context *)
(* makes once, with the service it finds then, and keeps.                  *)
(***************************************************************************)
EXTENDS Integers, FiniteSets

CONSTANTS
  Threads,         \* threads that use a SoundManager
  SystemContexts,  \* contexts of system_server itself
  AppContexts      \* contexts of applications

ASSUME BootAssumption ==
  /\ "free" \notin Threads
  /\ SystemContexts \cap AppContexts = {}
  /\ "none" \notin SystemContexts \cup AppContexts

VARIABLES
  boot,          \* how far the main thread of system_server is: BootSteps
  natives,       \* are the native methods of SoundService registered?
  sound_device,  \* what SoundNativeInit made of it: DeviceStates
  published,     \* is "sound" known to ServiceManager?
  wm,            \* has startOtherServices a WindowManagerService?
  mServiceCache, \* per context: its SoundManager, or NoManager
  made,          \* per context: how many SoundManagers were made for it
  lock,          \* the thread inside synchronized (cache), or "free"
  pc,            \* where each thread is
  context,       \* the context it asks
  binder,        \* what ServiceManager.getService gave it
  manager,       \* the SoundManager it got
  ret            \* the answer of its last aux_switch

bootVars   == <<boot, natives, sound_device, published, wm>>
cacheVars  == <<mServiceCache, made, lock>>
threadVars == <<pc, context, binder, manager, ret>>
vars == <<bootVars, cacheVars, threadVars>>

Contexts == SystemContexts \cup AppContexts

\* system_server in the order of run() and startOtherServices(); "failed" when
\* an exception ends it.
BootSteps ==
  {"start", "loaded", "context", "constructed", "published", "rest", "ready", "failed"}

DeviceStates == {"unset", "null", "device"}

\* A manager is told from others of its context by its number.
NoManager == [number |-> 0, mService |-> "null"]

Advance(from, to) == boot = from /\ boot' = to

-----------------------------------------------------------------------------
(***************************************************************************)
(* The main thread of system_server.                                       *)
(***************************************************************************)

\* System.loadLibrary("android_servers"): without its environment JNI_OnLoad
\* gives up and the library is refused; it does not look at what became of the
\* registration of a class.
JNI_OnLoad ==
  \/ /\ Advance("start", "loaded")
     /\ natives' \in BOOLEAN
     /\ UNCHANGED <<sound_device, published, wm, cacheVars, threadVars>>
  \/ /\ Advance("start", "failed")
     /\ UNCHANGED <<natives, sound_device, published, wm, cacheVars, threadVars>>

createSystemContext ==
  /\ Advance("loaded", "context")
  /\ UNCHANGED <<natives, sound_device, published, wm, cacheVars, threadVars>>

\* Mutant: without memory the error number is taken for the device.
sound_openKeepsError == {"device", "-ENOMEM"}

\* What hw_get_module and sound_open leave of the device.
sound_open == {"device", "null"}

hw_get_module(opened) == {"null"} \cup opened

\* new SoundService(context) calls a native method, and an UnsatisfiedLinkError
\* is no RuntimeException; the result of SoundNativeInit is not looked at.
ConstructService ==
  /\ \/ /\ natives
        /\ Advance("context", "constructed")
        /\ sound_device' \in hw_get_module(sound_open)
     \/ ~natives /\ Advance("context", "failed") /\ UNCHANGED sound_device
  /\ UNCHANGED <<natives, published, wm, cacheVars, threadVars>>

\* Mutant: the name is published before the constructor has run.
addServiceTooEarly ==
  /\ published = FALSE
  /\ boot = "context" /\ UNCHANGED boot
  /\ published' = TRUE
  /\ UNCHANGED <<natives, sound_device, wm, cacheVars, threadVars>>

addService ==
  /\ Advance("constructed", "published")
  /\ published' = TRUE
  /\ UNCHANGED <<natives, sound_device, wm, cacheVars, threadVars>>

\* WindowManagerService.main, and whatever the try block does after it, with or
\* without an exception.
StartWindowManager ==
  /\ Advance("published", "rest")
  /\ wm' = TRUE
  /\ UNCHANGED <<natives, sound_device, published, cacheVars, threadVars>>

\* A service of the try block fails, before or after the sound service: the
\* exception is logged and the boot goes on without what was still to come.
RuntimeException ==
  /\ boot \in {"context", "constructed", "published"}
  /\ boot' = "rest"
  /\ UNCHANGED <<natives, sound_device, published, wm, cacheVars, threadVars>>

\* Mutant: a boot without its window manager goes on.
systemReadyUnchecked ==
  /\ Advance("rest", "ready")
  /\ UNCHANGED <<natives, sound_device, published, wm, cacheVars, threadVars>>

\* Before applications are started, wm.detectSafeMode() ends a system_server
\* whose wm is still null.
systemReady ==
  /\ Advance("rest", IF wm THEN "ready" ELSE "failed")
  /\ UNCHANGED <<natives, sound_device, published, wm, cacheVars, threadVars>>

-----------------------------------------------------------------------------
(***************************************************************************)
(* getSystemService("sound"), CachedServiceFetcher.getService.             *)
(***************************************************************************)
Alive(c) ==
  \/ c \in SystemContexts /\ boot \in {"context", "constructed", "published", "rest", "ready"}
  \/ c \in AppContexts /\ boot = "ready"

Goto(t, from, to) == pc[t] = from /\ pc' = [pc EXCEPT ![t] = to]

\* Mutant: the block is not synchronized.
EnterUnsynchronized(t, c) ==
  /\ Alive(c)
  /\ Goto(t, "idle", "look")
  /\ context' = [context EXCEPT ![t] = c]
  /\ UNCHANGED <<bootVars, cacheVars, binder, manager, ret>>

Enter(t, c) ==
  /\ Alive(c)
  /\ lock[c] = "free"
  /\ Goto(t, "idle", "look")
  /\ lock' = [lock EXCEPT ![c] = t]
  /\ context' = [context EXCEPT ![t] = c]
  /\ UNCHANGED <<bootVars, mServiceCache, made, binder, manager, ret>>

Leave(t, kept) ==
  /\ manager' = [manager EXCEPT ![t] = kept]
  /\ lock' = [lock EXCEPT ![context[t]] = "free"]

Cached(t) ==
  /\ Goto(t, "look", "have")
  /\ mServiceCache[context[t]] # NoManager
  /\ Leave(t, mServiceCache[context[t]])
  /\ UNCHANGED <<bootVars, mServiceCache, made, context, binder, ret>>

\* createService: the service as ServiceManager knows it now, or null ...
GetService(t) ==
  /\ Goto(t, "look", "store")
  /\ mServiceCache[context[t]] = NoManager
  /\ binder' = [binder EXCEPT ![t] = IF published THEN "service" ELSE "null"]
  /\ UNCHANGED <<bootVars, cacheVars, context, manager, ret>>

\* ... goes into a new SoundManager, and that into the cache.
Store(t) ==
  LET c   == context[t]
      new == [number |-> made[c] + 1, mService |-> binder[t]]
  IN /\ Goto(t, "store", "have")
     /\ made' = [made EXCEPT ![c] = @ + 1]
     /\ mServiceCache' = [mServiceCache EXCEPT ![c] = new]
     /\ Leave(t, new)
     /\ UNCHANGED <<bootVars, context, binder, ret>>

\* SoundManager.aux_switch: a null service is no RemoteException; the call on
\* the service answers -1 without a device, and what SoundWaySwitch returns
\* with one.
aux_switch(t) ==
  /\ pc[t] = "have"
  /\ boot # "failed"
  /\ LET answers ==
           CASE manager[t].mService = "null" -> {"NullPointerException"}
             [] manager[t].mService # "null" /\ sound_device = "device" -> {"0", "-1"}
             [] manager[t].mService # "null" /\ sound_device # "device" -> {"-1"}
     IN ret' \in {[ret EXCEPT ![t] = answer] : answer \in answers}
  /\ UNCHANGED <<bootVars, cacheVars, pc, context, binder, manager>>

\* The thread turns to something else, and may ask again.
Done(t) ==
  /\ Goto(t, "have", "idle")
  /\ manager' = [manager EXCEPT ![t] = NoManager]
  /\ UNCHANGED <<bootVars, cacheVars, context, binder, ret>>

-----------------------------------------------------------------------------
Init ==
  /\ boot = "start"
  /\ natives = FALSE
  /\ sound_device = "unset"
  /\ published = FALSE
  /\ wm = FALSE
  /\ mServiceCache = [c \in Contexts |-> NoManager]
  /\ made = [c \in Contexts |-> 0]
  /\ lock = [c \in Contexts |-> "free"]
  /\ pc = [t \in Threads |-> "idle"]
  /\ context = [t \in Threads |-> "none"]
  /\ binder = [t \in Threads |-> "null"]
  /\ manager = [t \in Threads |-> NoManager]
  /\ ret = [t \in Threads |-> "none"]

startOtherServices ==
  ConstructService \/ addService \/ StartWindowManager \/ RuntimeException \/ systemReady

Boot == JNI_OnLoad \/ createSystemContext \/ startOtherServices

\* With system_server end its threads.
Fetch(t) == boot # "failed" /\ (Cached(t) \/ GetService(t) \/ Store(t))

Next ==
  \/ Boot
  \/ \E t \in Threads :
       (\E c \in Contexts : Enter(t, c)) \/ Fetch(t) \/ aux_switch(t) \/ Done(t)

Spec == Init /\ [][Next]_vars

-----------------------------------------------------------------------------
\* Every variable holds a value of its kind.
TypeOK ==
  /\ boot \in BootSteps
  /\ natives \in BOOLEAN
  /\ sound_device \in DeviceStates
  /\ published \in BOOLEAN
  /\ wm \in BOOLEAN
  /\ made \in [Contexts -> Nat]
  /\ mServiceCache \in [Contexts -> [number : Nat, mService : {"null", "service"}]]
  /\ lock \in [Contexts -> Threads \cup {"free"}]
  /\ pc \in [Threads -> {"idle", "look", "store", "have"}]
  /\ context \in [Threads -> Contexts \cup {"none"}]
  /\ binder \in [Threads -> {"null", "service"}]
  /\ manager \in [Threads -> [number : Nat, mService : {"null", "service"}]]
  /\ ret \in [Threads -> {"none", "0", "-1", "NullPointerException"}]

\* However many threads ask a context at once, it makes one SoundManager, and
\* all of them get that one.
OneManager ==
  /\ \A c \in Contexts : made[c] <= 1
  /\ \A t \in Threads : pc[t] = "have" => manager[t] = mServiceCache[context[t]]

\* Only a context of system_server can have asked before the service was
\* published, or where it never was because another service had failed: an
\* application never gets the NullPointerException that such a manager, once
\* cached, answers every call with.
AppsHaveTheService ==
  /\ \A c \in AppContexts : mServiceCache[c] # NoManager => mServiceCache[c].mService = "service"
  /\ \A t \in Threads : ret[t] = "NullPointerException" =>
       \E c \in SystemContexts : mServiceCache[c].number > 0 /\ mServiceCache[c].mService = "null"

\* Who holds the service finds its native methods registered and its device
\* decided, however early the manager was made.
ServiceIsConstructed ==
  \A c \in Contexts :
    mServiceCache[c].mService = "service" => natives /\ sound_device # "unset"

=============================================================================
