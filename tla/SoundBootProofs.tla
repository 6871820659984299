--------------------------- MODULE SoundBootProofs ---------------------------
(***************************************************************************)
(* Proofs about SoundBoot, for any threads and any contexts.               *)
(***************************************************************************)
EXTENDS SoundBoot, TLAPS

Managers == [number : Nat, mService : {"null", "service"}]

-----------------------------------------------------------------------------
(***************************************************************************)
(* The types.                                                              *)
(***************************************************************************)
BootType ==
  /\ boot \in BootSteps
  /\ natives \in BOOLEAN
  /\ sound_device \in DeviceStates
  /\ published \in BOOLEAN
  /\ wm \in BOOLEAN

CacheType ==
  /\ made \in [Contexts -> Nat]
  /\ mServiceCache \in [Contexts -> Managers]
  /\ lock \in [Contexts -> Threads \cup {"free"}]

ThreadType ==
  /\ pc \in [Threads -> {"idle", "look", "store", "have"}]
  /\ context \in [Threads -> Contexts \cup {"none"}]
  /\ binder \in [Threads -> {"null", "service"}]
  /\ manager \in [Threads -> Managers]
  /\ ret \in [Threads -> {"none", "0", "-1", "NullPointerException"}]

Types ==
  /\ BootType
  /\ CacheType
  /\ ThreadType
  /\ \A t \in Threads : pc[t] # "idle" => context[t] \in Contexts

LEMMA NoManagerType == NoManager \in Managers
BY DEF NoManager, Managers

LEMMA InitTypes == Init => Types
<1> SUFFICES ASSUME Init PROVE Types
  OBVIOUS
<1>1. BootType
  <2>1. natives = FALSE /\ published = FALSE /\ wm = FALSE
    BY DEF Init
  <2>2. natives \in BOOLEAN /\ published \in BOOLEAN /\ wm \in BOOLEAN
    BY ONLY <2>1
  <2> QED
    BY <2>2 DEF Init, BootType, BootSteps, DeviceStates
<1>2. CacheType
  BY NoManagerType DEF Init, CacheType
<1>3. ThreadType
  BY NoManagerType DEF Init, ThreadType
<1> QED
  BY <1>1, <1>2, <1>3 DEF Init, Types

LEMMA BootStep ==
  ASSUME BootType, Boot
  PROVE  BootType' /\ UNCHANGED <<cacheVars, threadVars>>
<1>1. CASE JNI_OnLoad
  BY <1>1 DEF JNI_OnLoad, Advance, BootType, BootSteps
<1>2. CASE ConstructService
  BY <1>2 DEF ConstructService, hw_get_module, sound_open, Advance, BootType,
              BootSteps, DeviceStates
<1>3. CASE createSystemContext \/ addService
  BY <1>3 DEF createSystemContext, addService, Advance, BootType, BootSteps
<1>4. CASE StartWindowManager \/ RuntimeException \/ systemReady
  BY <1>4 DEF StartWindowManager, RuntimeException, systemReady, Advance, BootType, BootSteps
<1> QED
  BY <1>1, <1>2, <1>3, <1>4 DEF Boot, startOtherServices

LEMMA EnterTypes ==
  ASSUME Types, NEW t \in Threads, NEW c \in Contexts, Enter(t, c)
  PROVE  Types'
BY DEF Enter, Goto, bootVars, Types, BootType, CacheType, ThreadType

LEMMA CachedTypes ==
  ASSUME Types, NEW t \in Threads, Cached(t)
  PROVE  Types'
<1>1. pc[t] = "look" /\ context[t] \in Contexts /\ mServiceCache[context[t]] \in Managers
  BY DEF Cached, Goto, Types, CacheType
<1> QED
  BY <1>1 DEF Cached, Leave, Goto, bootVars, Types, BootType, CacheType, ThreadType

LEMMA GetServiceTypes ==
  ASSUME Types, NEW t \in Threads, GetService(t)
  PROVE  Types'
BY DEF GetService, Goto, bootVars, cacheVars, Types, BootType, CacheType, ThreadType

LEMMA StoreTypes ==
  ASSUME Types, NEW t \in Threads, Store(t)
  PROVE  Types'
<1> DEFINE c   == context[t]
           new == [number |-> made[c] + 1, mService |-> binder[t]]
<1>1. /\ pc[t] = "store" /\ c \in Contexts /\ made[c] \in Nat
      /\ binder[t] \in {"null", "service"}
  BY DEF Store, Goto, Types, CacheType, ThreadType
<1>2. new \in Managers
  BY <1>1 DEF Managers
<1>3. /\ pc' = [pc EXCEPT ![t] = "have"]
      /\ made' = [made EXCEPT ![c] = @ + 1]
      /\ mServiceCache' = [mServiceCache EXCEPT ![c] = new]
      /\ manager' = [manager EXCEPT ![t] = new]
      /\ lock' = [lock EXCEPT ![c] = "free"]
      /\ UNCHANGED <<bootVars, context, binder, ret>>
  BY DEF Store, Leave, Goto
<1> HIDE DEF new
<1> QED
  BY <1>1, <1>2, <1>3 DEF bootVars, Types, BootType, CacheType, ThreadType

LEMMA CallTypes ==
  ASSUME Types, NEW t \in Threads, aux_switch(t)
  PROVE  Types'
<1>1. PICK answer \in {"0", "-1", "NullPointerException"} :
        ret' = [ret EXCEPT ![t] = answer]
  BY DEF aux_switch
<1> QED
  BY <1>1 DEF aux_switch, bootVars, cacheVars, Types, BootType, CacheType, ThreadType

LEMMA DoneTypes ==
  ASSUME Types, NEW t \in Threads, Done(t)
  PROVE  Types'
BY NoManagerType DEF Done, Goto, bootVars, cacheVars, Types, BootType, CacheType, ThreadType

LEMMA NextTypes == Types /\ [Next]_vars => Types'
<1> SUFFICES ASSUME Types, [Next]_vars PROVE Types'
  OBVIOUS
<1>1. CASE Boot
  BY <1>1, BootStep DEF Types, CacheType, ThreadType, cacheVars, threadVars
<1>2. CASE UNCHANGED vars
  BY <1>2 DEF vars, bootVars, cacheVars, threadVars, Types, BootType, CacheType, ThreadType
<1>3. ASSUME NEW t \in Threads, Fetch(t)
      PROVE  Types'
  BY <1>3, CachedTypes, GetServiceTypes, StoreTypes DEF Fetch
<1> QED
  BY <1>1, <1>2, <1>3, EnterTypes, CallTypes, DoneTypes DEF Next

\* The variables keep their types, for any threads and contexts.
THEOREM TypeCorrect == Spec => []TypeOK
<1>1. Types => TypeOK
  BY DEF Types, TypeOK, BootType, CacheType, ThreadType, Managers
<1> QED
  BY InitTypes, NextTypes, <1>1, PTL DEF Spec

-----------------------------------------------------------------------------
(***************************************************************************)
(* The boot: the service is constructed before it is published, published  *)
(* before there is a window manager, and no application is started without *)
(* that one, whatever exception was caught meanwhile.                      *)
(***************************************************************************)
BootOrder ==
  /\ boot = "start" => ~published
  /\ published => natives /\ sound_device # "unset"
  /\ boot = "constructed" => natives /\ sound_device # "unset"
  /\ boot = "published" => published
  /\ wm => published
  /\ boot = "ready" => wm

LEMMA BootOrderKept ==
  ASSUME BootType, BootOrder, Boot
  PROVE  BootOrder' /\ (published => published') /\ (boot = "ready" => boot' = "ready")
<1>1. CASE JNI_OnLoad \/ createSystemContext
  BY <1>1 DEF JNI_OnLoad, createSystemContext, Advance, BootOrder
<1>2. CASE ConstructService
  BY <1>2 DEF ConstructService, hw_get_module, sound_open, Advance, BootOrder
<1>3. CASE addService \/ StartWindowManager
  BY <1>3 DEF addService, StartWindowManager, Advance, BootOrder
<1>4. CASE RuntimeException \/ systemReady
  BY <1>4 DEF RuntimeException, systemReady, Advance, BootType, BootOrder
<1> QED
  BY <1>1, <1>2, <1>3, <1>4 DEF Boot, startOtherServices

-----------------------------------------------------------------------------
(***************************************************************************)
(* The cache of a context.  A thread between the look at the cache and the *)
(* store holds the lock of its context, and so finds the cache empty at    *)
(* the store as it did at the look.                                        *)
(***************************************************************************)
Locked ==
  \A t \in Threads : pc[t] \in {"look", "store"} => lock[context[t]] = t

\* What has been made is in the cache, and it is in there for good.
Numbered ==
  \A c \in Contexts :
    /\ made[c] = mServiceCache[c].number
    /\ made[c] <= 1
    /\ made[c] = 0 => mServiceCache[c] = NoManager

Stored ==
  \A t \in Threads :
    /\ pc[t] = "store" => mServiceCache[context[t]] = NoManager
    /\ pc[t] = "have" =>
         manager[t] = mServiceCache[context[t]] /\ manager[t] # NoManager

\* The service that was found was published; who asks for an application asks
\* after that.
Served ==
  /\ \A t \in Threads :
       /\ pc[t] = "store" /\ binder[t] = "service" => published
       /\ pc[t] # "idle" /\ context[t] \in AppContexts => boot = "ready"
       /\ pc[t] = "store" /\ context[t] \in AppContexts => binder[t] = "service"
  /\ \A c \in Contexts : mServiceCache[c].mService = "service" => published

BootInv == BootOrder /\ Locked /\ Numbered /\ Stored /\ Served /\ AppsHaveTheService

LEMMA InitBootInv == Init => BootInv
BY DEF Init, BootInv, BootOrder, Locked, Numbered, Stored, Served, AppsHaveTheService,
       NoManager, Contexts

\* A manager that has a number is none other than the first.
LEMMA NumberedManager ==
  ASSUME Types, Numbered, NEW c \in Contexts, mServiceCache[c] # NoManager
  PROVE  mServiceCache[c].number = 1
BY DEF Types, CacheType, Numbered

LEMMA BootKeepsInv ==
  ASSUME Types, BootInv, Boot
  PROVE  BootInv'
<1>1. /\ BootOrder' /\ (published => published') /\ (boot = "ready" => boot' = "ready")
      /\ UNCHANGED <<cacheVars, threadVars>>
  BY BootStep, BootOrderKept DEF Types, BootInv
<1> QED
  BY <1>1 DEF cacheVars, threadVars, BootInv, Locked, Numbered, Stored, Served,
              AppsHaveTheService

LEMMA EnterKeepsInv ==
  ASSUME Types, BootInv, NEW t \in Threads, NEW c \in Contexts, Enter(t, c)
  PROVE  BootInv'
<1>1. /\ pc[t] = "idle" /\ pc' = [pc EXCEPT ![t] = "look"]
      /\ lock[c] = "free" /\ lock' = [lock EXCEPT ![c] = t]
      /\ context' = [context EXCEPT ![t] = c]
      /\ UNCHANGED <<boot, natives, sound_device, published, wm, mServiceCache, made,
                     binder, manager, ret>>
      /\ c \in AppContexts => boot = "ready"
  BY BootAssumption DEF Enter, Goto, Alive, bootVars, BootAssumption
<1>2. Locked'
  BY <1>1, BootAssumption DEF Types, CacheType, ThreadType, BootInv, Locked, BootAssumption
<1>3. Stored'
  BY <1>1 DEF Types, ThreadType, BootInv, Stored
<1>4. Served'
  BY <1>1 DEF Types, ThreadType, BootInv, Served
<1> QED
  BY <1>1, <1>2, <1>3, <1>4 DEF BootInv, BootOrder, Numbered, AppsHaveTheService

LEMMA CachedKeepsInv ==
  ASSUME Types, BootInv, NEW t \in Threads, Cached(t)
  PROVE  BootInv'
<1>1. /\ pc[t] = "look" /\ pc' = [pc EXCEPT ![t] = "have"]
      /\ context[t] \in Contexts /\ lock[context[t]] = t
      /\ mServiceCache[context[t]] # NoManager
      /\ manager' = [manager EXCEPT ![t] = mServiceCache[context[t]]]
      /\ lock' = [lock EXCEPT ![context[t]] = "free"]
      /\ UNCHANGED <<boot, natives, sound_device, published, wm, mServiceCache, made,
                     context, binder, ret>>
  BY DEF Cached, Leave, Goto, bootVars, Types, BootInv, Locked
<1>2. Locked'
  BY <1>1 DEF Types, CacheType, ThreadType, BootInv, Locked
<1>3. Stored'
  BY <1>1 DEF Types, ThreadType, BootInv, Stored
<1>4. Served'
  BY <1>1 DEF Types, ThreadType, BootInv, Served
<1> QED
  BY <1>1, <1>2, <1>3, <1>4 DEF BootInv, BootOrder, Numbered, AppsHaveTheService

LEMMA GetServiceKeepsInv ==
  ASSUME Types, BootInv, NEW t \in Threads, GetService(t)
  PROVE  BootInv'
<1>1. /\ pc[t] = "look" /\ pc' = [pc EXCEPT ![t] = "store"]
      /\ mServiceCache[context[t]] = NoManager
      /\ binder' = [binder EXCEPT ![t] = IF published THEN "service" ELSE "null"]
      /\ UNCHANGED <<boot, natives, sound_device, published, wm, mServiceCache, made, lock,
                     context, manager, ret>>
  BY DEF GetService, Goto, bootVars, cacheVars
<1>2. Locked'
  BY <1>1 DEF Types, ThreadType, BootInv, Locked
<1>3. Stored'
  BY <1>1 DEF Types, ThreadType, BootInv, Stored
<1>4. Served'
  BY <1>1 DEF Types, ThreadType, BootInv, BootOrder, Served
<1> QED
  BY <1>1, <1>2, <1>3, <1>4 DEF BootInv, BootOrder, Numbered, AppsHaveTheService

LEMMA StoreKeepsInv ==
  ASSUME Types, BootInv, NEW t \in Threads, Store(t)
  PROVE  BootInv'
<1> DEFINE c   == context[t]
           new == [number |-> made[c] + 1, mService |-> binder[t]]
<1>1. /\ pc[t] = "store" /\ c \in Contexts /\ lock[c] = t
      /\ mServiceCache[c] = NoManager
      /\ binder[t] \in {"null", "service"}
      /\ binder[t] = "service" => published
      /\ c \in AppContexts => binder[t] = "service"
  BY DEF Store, Goto, Types, ThreadType, BootInv, Locked, Stored, Served
<1>2. made[c] = 0 /\ new.number = 1 /\ new.mService = binder[t] /\ new # NoManager
  BY <1>1 DEF BootInv, Numbered, NoManager
<1>3. /\ pc' = [pc EXCEPT ![t] = "have"]
      /\ made' = [made EXCEPT ![c] = 1]
      /\ mServiceCache' = [mServiceCache EXCEPT ![c] = new]
      /\ manager' = [manager EXCEPT ![t] = new]
      /\ lock' = [lock EXCEPT ![c] = "free"]
      /\ UNCHANGED <<boot, natives, sound_device, published, wm, context, binder, ret>>
  BY <1>2 DEF Store, Leave, Goto, bootVars
<1> HIDE DEF new
<1>4. Locked'
  BY <1>1, <1>3 DEF Types, CacheType, ThreadType, BootInv, Locked
<1>5. Numbered'
  BY <1>1, <1>2, <1>3 DEF Types, CacheType, BootInv, Numbered
<1>6. Stored'
  <2>1. ASSUME NEW u \in Threads, u # t, pc'[u] = "store"
        PROVE  context[u] # c /\ mServiceCache[context[u]] = NoManager
    BY <1>1, <1>3, <2>1 DEF Types, ThreadType, BootInv, Locked, Stored
  <2>2. ASSUME NEW u \in Threads, u # t, pc'[u] = "have"
        PROVE  /\ context[u] # c /\ manager[u] # NoManager
               /\ manager[u] = mServiceCache[context[u]]
    BY <1>1, <1>3, <2>2 DEF Types, ThreadType, BootInv, Stored
  <2> QED
    BY <1>1, <1>2, <1>3, <2>1, <2>2 DEF Types, CacheType, ThreadType, Stored
<1>7. Served'
  BY <1>1, <1>2, <1>3 DEF Types, CacheType, ThreadType, BootInv, Served
<1>8. AppsHaveTheService'
  <2>1. \A d \in AppContexts :
          mServiceCache'[d] # NoManager => mServiceCache'[d].mService = "service"
    BY <1>1, <1>2, <1>3 DEF Types, CacheType, BootInv, AppsHaveTheService, Contexts
  <2>2. ASSUME NEW d \in SystemContexts, mServiceCache[d].number > 0
        PROVE  mServiceCache'[d] = mServiceCache[d]
    BY <1>1, <1>3, <2>2 DEF Types, CacheType, NoManager, Contexts
  <2> QED
    BY <1>3, <2>1, <2>2 DEF BootInv, AppsHaveTheService
<1> QED
  BY <1>3, <1>4, <1>5, <1>6, <1>7, <1>8 DEF BootInv, BootOrder

LEMMA CallKeepsInv ==
  ASSUME Types, BootInv, NEW t \in Threads, aux_switch(t)
  PROVE  BootInv'
<1>1. /\ pc[t] = "have"
      /\ \E answer \in {"0", "-1", "NullPointerException"} :
           /\ ret' = [ret EXCEPT ![t] = answer]
           /\ answer = "NullPointerException" => manager[t].mService = "null"
      /\ UNCHANGED <<boot, natives, sound_device, published, wm, mServiceCache, made, lock,
                     pc, context, binder, manager>>
  BY DEF aux_switch, bootVars, cacheVars
<1>2. PICK answer \in {"0", "-1", "NullPointerException"} :
        /\ ret' = [ret EXCEPT ![t] = answer]
        /\ answer = "NullPointerException" => manager[t].mService = "null"
  BY <1>1
<1>3. /\ context[t] \in Contexts
      /\ manager[t] = mServiceCache[context[t]]
      /\ mServiceCache[context[t]].number = 1
  BY <1>1, NumberedManager DEF Types, BootInv, Stored
<1>4. answer = "NullPointerException" =>
        \E c \in SystemContexts :
          mServiceCache[c].number > 0 /\ mServiceCache[c].mService = "null"
  <2>1. manager[t].mService = "null" => context[t] \notin AppContexts
    BY <1>1, <1>3 DEF BootInv, Stored, AppsHaveTheService
  <2> QED
    BY <1>2, <1>3, <2>1 DEF Contexts
<1>5. AppsHaveTheService'
  BY <1>1, <1>2, <1>4 DEF Types, ThreadType, BootInv, AppsHaveTheService
<1> QED
  BY <1>1, <1>5 DEF BootInv, BootOrder, Locked, Numbered, Stored, Served

LEMMA DoneKeepsInv ==
  ASSUME Types, BootInv, NEW t \in Threads, Done(t)
  PROVE  BootInv'
<1>1. /\ pc' = [pc EXCEPT ![t] = "idle"]
      /\ manager' = [manager EXCEPT ![t] = NoManager]
      /\ UNCHANGED <<boot, natives, sound_device, published, wm, mServiceCache, made, lock,
                     context, binder, ret>>
  BY DEF Done, Goto, bootVars, cacheVars
<1> QED
  BY <1>1 DEF Types, ThreadType, BootInv, BootOrder, Locked, Numbered, Stored, Served,
              AppsHaveTheService

LEMMA NextBootInv == Types /\ BootInv /\ [Next]_vars => BootInv'
<1> SUFFICES ASSUME Types, BootInv, [Next]_vars PROVE BootInv'
  OBVIOUS
<1>1. CASE Boot
  BY <1>1, BootKeepsInv
<1>2. CASE UNCHANGED vars
  BY <1>2 DEF vars, bootVars, cacheVars, threadVars, BootInv, BootOrder, Locked, Numbered,
              Stored, Served, AppsHaveTheService
<1>3. ASSUME NEW t \in Threads, Fetch(t)
      PROVE  BootInv'
  BY <1>3, CachedKeepsInv, GetServiceKeepsInv, StoreKeepsInv DEF Fetch
<1> QED
  BY <1>1, <1>2, <1>3, EnterKeepsInv, CallKeepsInv, DoneKeepsInv DEF Next

LEMMA AlwaysBootInv == Spec => [](Types /\ BootInv)
BY InitTypes, NextTypes, InitBootInv, NextBootInv, PTL DEF Spec

\* However many threads ask a context at once, it makes one manager for all.
THEOREM OneManagerPerContext == Spec => []OneManager
<1>1. Types /\ BootInv => OneManager
  BY DEF BootInv, Numbered, Stored, OneManager
<1> QED
  BY <1>1, AlwaysBootInv, PTL

\* An application's manager has the service.
THEOREM AppsAreServed == Spec => []AppsHaveTheService
<1>1. BootInv => AppsHaveTheService
  BY DEF BootInv
<1> QED
  BY <1>1, AlwaysBootInv, PTL

\* Who holds the service finds it constructed.
THEOREM ServiceComesConstructed == Spec => []ServiceIsConstructed
<1>1. BootInv => ServiceIsConstructed
  BY DEF BootInv, BootOrder, Served, ServiceIsConstructed
<1> QED
  BY <1>1, AlwaysBootInv, PTL

==============================================================================
