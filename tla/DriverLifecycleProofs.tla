------------------------ MODULE DriverLifecycleProofs ------------------------
(***************************************************************************)
(* Proofs about DriverLifecycle, whatever acquisition fails, whatever pins *)
(* and chips are missing, and whenever a module is loaded, used or         *)
(* unloaded.                                                               *)
(***************************************************************************)
EXTENDS DriverLifecycle, TLAPS

(***************************************************************************)
(* The inductive invariant, driver by driver.                              *)
(***************************************************************************)

\* What has to be there when r is acquired.
Before ==
  [region |-> {},
   memory |-> {"region"},
   cdev   |-> {"region", "memory"},
   class  |-> {"region", "memory", "cdev"},
   node   |-> {"region", "memory", "cdev", "class"},
   sem    |-> {"region", "memory", "cdev", "class", "node"},
   driver |-> {"region", "memory", "cdev", "class", "node", "sem"}]

\* What is left for a label and those below it.
HeldAt ==
  [FAIL5 |-> Before["sem"],
   FAIL4 |-> Before["node"],
   FAIL3 |-> Before["class"],
   FAIL2 |-> Before["cdev"],
   FAIL1 |-> Before["memory"],
   FAIL  |-> {}]

\* The semaphore stays with the memory, and a node comes down only after the
\* semaphore was set up.
Undoing(label, resources) ==
  /\ resources \ {"sem"} = HeldAt[label]
  /\ "sem" \in resources => "memory" \in resources
  /\ "node" \in resources => "sem" \in resources

\* What is held at each place of init and exit.
HeldInPhase(d) ==
  /\ phase[d] = "off"         => held[d] = {}
  /\ phase[d] \in Resources   => held[d] = Before[phase[d]]
  /\ phase[d] \in Labels      => Undoing(phase[d], held[d])
  /\ phase[d] = "loaded"      => held[d] \in {{}, Resources}
  /\ phase[d] = "exit_class"  => held[d] \in {{}, Resources}
  /\ phase[d] = "exit_memory" => held[d] \in {{}, {"region", "memory", "cdev", "sem", "driver"}}
  /\ phase[d] = "exit_region" => held[d] \in {{}, {"region", "driver"}}
  /\ phase[d] = "exit_driver" => held[d] \in {{}, {"driver"}}
  /\ phase[d] = "remove"      => held[d] = {}

\* A pointer is live as long as what it refers to is held, and only a driver
\* that has its pins gets as far as to set one.
PointersFollow(d) ==
  /\ devptr[d] = "live" <=> "memory" \in held[d]
  /\ classptr[d] = "live" <=> "class" \in held[d]
  /\ phase[d] \in Resources \cup Labels \/ devptr[d] # "null" => Configured(d)

\* A file came by a node, and the semaphore follows the node before init can
\* fail again.
FileHolds(d) ==
  file[d] = "open" =>
    \/ phase[d] \in Resources /\ "node" \in held[d]
    \/ phase[d] \in Labels \cup {"loaded"} /\ "sem" \in held[d]

\* A work queue is a probed driver's, until remove destroys it; work is in the
\* queue of its driver.
QueueHolds(d) ==
  /\ wq[d] =>
       /\ "driver" \in held[d] \/ phase[d] = "remove"
       /\ phase[d] \in Exiting \cup {"loaded"}
       /\ client[d]
       /\ devptr[d] # "null"
  /\ pending[d] # "none" \/ running[d] # "none" => wq[d]

InPlace(d) == HeldInPhase(d) /\ PointersFollow(d) /\ FileHolds(d) /\ QueueHolds(d)

\* npca110 is there as long as ntp8230 is.
LoadOrder == phase["ntp8230"] # "off" => phase[FlagOwner] = "loaded"

Places == (\A d \in Drivers : InPlace(d)) /\ LoadOrder

IInv == TypeOK /\ Places /\ InvalidUsesExplained

-----------------------------------------------------------------------------
(***************************************************************************)
(* The chain of resources.                                                 *)
(***************************************************************************)
LEMMA BeforeIs ==
  /\ Before["region"] = {}
  /\ Before["memory"] = {"region"}
  /\ Before["cdev"] = {"region", "memory"}
  /\ Before["class"] = {"region", "memory", "cdev"}
  /\ Before["node"] = {"region", "memory", "cdev", "class"}
  /\ Before["sem"] = {"region", "memory", "cdev", "class", "node"}
  /\ Before["driver"] = {"region", "memory", "cdev", "class", "node", "sem"}
BY DEF Before

\* The places of the module are all different.
LEMMA PlacesApart ==
  /\ Resources \cap (Labels \cup Exiting \cup {"off", "loaded"}) = {}
  /\ Labels \cap (Exiting \cup {"off", "loaded"}) = {}
  /\ Exiting \cap {"off", "loaded"} = {}
  /\ Resources \subseteq Phases /\ Labels \subseteq Phases /\ Exiting \subseteq Phases
BY DEF Resources, Labels, Exiting, Phases

LEMMA FollowingIs ==
  /\ Following["region"] = "memory" /\ Following["memory"] = "cdev"
  /\ Following["cdev"] = "class" /\ Following["class"] = "node"
  /\ Following["node"] = "sem" /\ Following["sem"] = "driver"
BY DEF Following

LEMMA LabelIs ==
  /\ Label["region"] = "FAIL" /\ Label["memory"] = "FAIL1" /\ Label["cdev"] = "FAIL2"
  /\ Label["class"] = "FAIL3" /\ Label["node"] = "FAIL4" /\ Label["driver"] = "FAIL5"
BY DEF Label

LEMMA BelowIs ==
  /\ Below["FAIL5"] = "FAIL4" /\ Released["FAIL5"] = "node"
  /\ Below["FAIL4"] = "FAIL3" /\ Released["FAIL4"] = "class"
  /\ Below["FAIL3"] = "FAIL2" /\ Released["FAIL3"] = "cdev"
  /\ Below["FAIL2"] = "FAIL1" /\ Released["FAIL2"] = "memory"
  /\ Below["FAIL1"] = "FAIL" /\ Released["FAIL1"] = "region"
BY DEF Below, Released

LEMMA HeldAtIs ==
  /\ HeldAt["FAIL5"] = Before["sem"] /\ HeldAt["FAIL4"] = Before["node"]
  /\ HeldAt["FAIL3"] = Before["class"] /\ HeldAt["FAIL2"] = Before["cdev"]
  /\ HeldAt["FAIL1"] = Before["memory"] /\ HeldAt["FAIL"] = {}
BY DEF HeldAt

\* Init takes the next resource when it has taken all that come before.
LEMMA FollowingFacts ==
  ASSUME NEW r \in Resources \ {"driver"}
  PROVE  Following[r] \in Resources /\ Before[Following[r]] = Before[r] \cup {r}
<1>1. CASE r = "region"
  BY <1>1, FollowingIs, BeforeIs DEF Resources
<1>2. CASE r = "memory"
  BY <1>2, FollowingIs, BeforeIs DEF Resources
<1>3. CASE r = "cdev"
  BY <1>3, FollowingIs, BeforeIs DEF Resources
<1>4. CASE r = "class"
  BY <1>4, FollowingIs, BeforeIs DEF Resources
<1>5. CASE r = "node"
  BY <1>5, FollowingIs, BeforeIs DEF Resources
<1>6. CASE r = "sem"
  BY <1>6, FollowingIs, BeforeIs DEF Resources
<1> QED
  BY <1>1, <1>2, <1>3, <1>4, <1>5, <1>6 DEF Resources

\* The label of a resource that cannot be taken is the one for all that come
\* before.
LEMMA LabelFacts ==
  ASSUME NEW r \in Resources \ {"sem"}
  PROVE  Label[r] \in Labels /\ HeldAt[Label[r]] = Before[r] \ {"sem"}
<1>1. CASE r = "region"
  BY <1>1, LabelIs, HeldAtIs, BeforeIs DEF Labels
<1>2. CASE r = "memory"
  BY <1>2, LabelIs, HeldAtIs, BeforeIs DEF Labels
<1>3. CASE r = "cdev"
  BY <1>3, LabelIs, HeldAtIs, BeforeIs DEF Labels
<1>4. CASE r = "class"
  BY <1>4, LabelIs, HeldAtIs, BeforeIs DEF Labels
<1>5. CASE r = "node"
  BY <1>5, LabelIs, HeldAtIs, BeforeIs DEF Labels
<1>6. CASE r = "driver"
  BY <1>6, LabelIs, HeldAtIs, BeforeIs DEF Labels
<1> QED
  BY <1>1, <1>2, <1>3, <1>4, <1>5, <1>6 DEF Resources

\* A label releases the one resource that the labels below it do not expect.
LEMMA BelowFacts ==
  ASSUME NEW label \in Labels \ {"FAIL"}
  PROVE  /\ Below[label] \in Labels
         /\ Released[label] \in Resources \ {"sem", "driver"}
         /\ HeldAt[label] = HeldAt[Below[label]] \cup {Released[label]}
         /\ Released[label] \notin HeldAt[Below[label]]
         /\ Released[label] = "memory" => "node" \notin HeldAt[label]
<1>1. CASE label = "FAIL5"
  BY <1>1, BelowIs, HeldAtIs, BeforeIs DEF Labels, Resources
<1>2. CASE label = "FAIL4"
  BY <1>2, BelowIs, HeldAtIs, BeforeIs DEF Labels, Resources
<1>3. CASE label = "FAIL3"
  BY <1>3, BelowIs, HeldAtIs, BeforeIs DEF Labels, Resources
<1>4. CASE label = "FAIL2"
  BY <1>4, BelowIs, HeldAtIs, BeforeIs DEF Labels, Resources
<1>5. CASE label = "FAIL1"
  BY <1>5, BelowIs, HeldAtIs, BeforeIs DEF Labels, Resources
<1> QED
  BY <1>1, <1>2, <1>3, <1>4, <1>5 DEF Labels

\* Which of the resources that an invariant names come before which.
LEMMA BeforeFacts ==
  ASSUME NEW r \in Resources
  PROVE  /\ Before[r] \subseteq Resources \ {"driver"}
         /\ r \notin Before[r]
         /\ "node" \in Before[r] => r \in {"sem", "driver"}
         /\ "class" \in Before[r] => "cdev" \in Before[r]
         /\ "memory" \in Before[r] => r \notin {"region", "memory"}
         /\ "sem" \in Before[r] => r = "driver" /\ "memory" \in Before[r]
         /\ \A q \in Before[r] : Before[q] \subseteq Before[r]
<1>1. r \in {"region", "memory", "cdev", "class", "node", "sem", "driver"}
  BY DEF Resources
<1>2. Before[r] \subseteq Resources \ {"driver"} /\ r \notin Before[r]
  BY <1>1, BeforeIs DEF Resources
<1>3. /\ "node" \in Before[r] => r \in {"sem", "driver"}
      /\ "class" \in Before[r] => "cdev" \in Before[r]
      /\ "memory" \in Before[r] => r \notin {"region", "memory"}
      /\ "sem" \in Before[r] => r = "driver" /\ "memory" \in Before[r]
  BY <1>1, BeforeIs
<1>4. ASSUME NEW q \in Before[r]
      PROVE  Before[q] \subseteq Before[r]
  <2>1. q \in {"region", "memory", "cdev", "class", "node", "sem"}
    BY <1>2, <1>4 DEF Resources
  <2>2. CASE q = "region"
    BY <2>2, BeforeIs
  <2>3. CASE q = "memory"
    BY <1>1, <1>4, <2>3, BeforeIs
  <2>4. CASE q = "cdev"
    BY <1>1, <1>4, <2>4, BeforeIs
  <2>5. CASE q = "class"
    BY <1>1, <1>4, <2>5, BeforeIs
  <2>6. CASE q = "node"
    BY <1>1, <1>4, <2>6, BeforeIs
  <2>7. CASE q = "sem"
    BY <1>1, <1>4, <2>7, BeforeIs
  <2> QED
    BY <2>1, <2>2, <2>3, <2>4, <2>5, <2>6, <2>7
<1> QED
  BY <1>2, <1>3, <1>4

-----------------------------------------------------------------------------
(***************************************************************************)
(* Steps in general.                                                       *)
(***************************************************************************)

\* What a step of driver d leaves as it is at the other one.
Untouched(c) ==
  /\ phase'[c] = phase[c] /\ held'[c] = held[c] /\ devptr'[c] = devptr[c]
  /\ classptr'[c] = classptr[c] /\ file'[c] = file[c] /\ client'[c] = client[c]
  /\ wq'[c] = wq[c] /\ pending'[c] = pending[c] /\ running'[c] = running[c]

LEMMA UntouchedInPlace ==
  ASSUME NEW c \in Drivers, InPlace(c), Untouched(c), fex' = fex
  PROVE  InPlace(c)'
<1>1. HeldInPhase(c)'
  BY DEF InPlace, HeldInPhase, Untouched
<1>2. PointersFollow(c)'
  BY DEF InPlace, PointersFollow, Untouched, Configured
<1>3. FileHolds(c)'
  BY DEF InPlace, FileHolds, Untouched
<1>4. QueueHolds(c)'
  BY DEF InPlace, QueueHolds, Untouched
<1> QED
  BY <1>1, <1>2, <1>3, <1>4 DEF InPlace

\* A step that uses nothing it may not use leaves nothing to explain.
LEMMA NothingToExplain == oops' = Fine => InvalidUsesExplained'
BY DEF Fine, InvalidUsesExplained

\* What explains an invalid use of the given kind by driver d.
Explains(d, kind) ==
  /\ kind = "release" => phase[d] \in Exiting \cup {"off"} /\ held[d] = {}
  /\ kind = "freed" =>
       \/ phase[d] \in {"exit_region", "exit_driver", "remove"}
       \/ file[d] = "stale"
       \/ d = "ntp8230" /\ FailedQuietly("npca110")
  /\ kind = "null" =>
       d = "ntp8230" /\ phase["npca110"] = "loaded" /\ held["npca110"] = {}
  /\ kind = "semaphore" => phase[d] = "sem" /\ file[d] = "open"
  /\ kind = "client" => ~wq[d] /\ file[d] = "open"

LEMMA UseExplained ==
  ASSUME NEW d \in Drivers, NEW kind, Oops(d, kind), Explains(d, kind)'
  PROVE  InvalidUsesExplained'
<1>1. oops' = [kind |-> kind, driver |-> d]
  BY DEF Oops
<1>2. ASSUME NEW c \in Drivers, NEW k, oops' = [kind |-> k, driver |-> c]
      PROVE  k = kind /\ c = d
  BY <1>1, <1>2
<1>3. \A c \in Drivers : \A k : oops' = [kind |-> k, driver |-> c] => Explains(c, k)'
  BY <1>2
<1> QED
  BY <1>3 DEF InvalidUsesExplained, Explains

\* A step of driver d that keeps to its kinds and leaves d in place.
LEMMA StepInPlace ==
  ASSUME TypeOK, Places, NEW d \in Drivers, fex' = fex, InPlace(d)', LoadOrder',
         \A c \in Drivers \ {d} : Untouched(c)
  PROVE  Places'
<1>1. ASSUME NEW c \in Drivers
      PROVE  InPlace(c)'
  <2>1. CASE c = d
    BY <2>1
  <2>2. CASE c # d
    BY <2>2, UntouchedInPlace DEF Places
  <2> QED
    BY <2>1, <2>2
<1> QED
  BY <1>1 DEF Places

\* The other driver is not affected by where npca110 is before it is loaded or
\* after ntp8230 is gone.
LEMMA OrderKept ==
  ASSUME TypeOK, Places, NEW d \in Drivers,
         \A c \in Drivers \ {d} : phase'[c] = phase[c],
         phase[d] = "off" \/ phase'[d] = phase[d] \/ phase[d] # "loaded"
           \/ d # FlagOwner \/ phase["ntp8230"] = "off",
         phase[d] = "off" /\ d # FlagOwner => phase[FlagOwner] = "loaded"
  PROVE  LoadOrder'
BY DEF Places, LoadOrder, Drivers, FlagOwner

\* What a release does, to what is held and to what is not.
LEMMA ReleaseFacts ==
  ASSUME TypeOK, oops = Fine, NEW d \in Drivers, NEW resources, Release(d, resources)
  PROVE  /\ held' \in [Drivers -> SUBSET Resources]
         /\ held'[d] = held[d] \ IF "memory" \in resources THEN resources \cup {"sem"} ELSE resources
         /\ \A c \in Drivers \ {d} : held'[c] = held[c]
         /\ oops' \in [kind : {"none", "null", "freed", "semaphore", "client", "release"},
                        driver : Drivers \cup {"none"}]
         /\ resources \subseteq held[d] => oops' = Fine
         /\ ~(resources \subseteq held[d]) => Oops(d, "release")
<1> DEFINE gone == IF "memory" \in resources THEN resources \cup {"sem"} ELSE resources
<1>1. /\ held' = [held EXCEPT ![d] = @ \ gone]
      /\ IF resources \subseteq held[d] THEN UNCHANGED oops ELSE Oops(d, "release")
  BY DEF Release
<1> HIDE DEF gone
<1>2. /\ held' \in [Drivers -> SUBSET Resources] /\ held'[d] = held[d] \ gone
      /\ \A c \in Drivers \ {d} : held'[c] = held[c]
  BY <1>1 DEF TypeOK
<1>3. oops' \in [kind : {"none", "null", "freed", "semaphore", "client", "release"},
                 driver : Drivers \cup {"none"}]
  BY <1>1 DEF Oops, Fine
<1> QED
  BY <1>1, <1>2, <1>3 DEF gone

-----------------------------------------------------------------------------
(***************************************************************************)
(* The init functions.                                                     *)
(***************************************************************************)
LEMMA LoadKeeps ==
  ASSUME TypeOK, Places, NEW d \in Drivers, Load(d)
  PROVE  TypeOK' /\ Places'
<1>1. /\ phase' = [phase EXCEPT ![d] = IF Configured(d) THEN "region" ELSE "loaded"]
      /\ UNCHANGED <<fex, ret, held, devptr, classptr, client, wq, pending, running, file,
                     asleep, oops>>
      /\ phase[d] = "off" /\ (d # FlagOwner => phase[FlagOwner] = "loaded")
  BY DEF Load, probeVars, workVars
<1>2. TypeOK'
  <2>1. phase' \in [Drivers -> Phases]
    BY <1>1 DEF TypeOK, Phases, Resources
  <2> QED
    BY <1>1, <2>1 DEF TypeOK
<1>3. /\ phase'[d] = IF Configured(d) THEN "region" ELSE "loaded"
      /\ \A c \in Drivers \ {d} : phase'[c] = phase[c]
  BY <1>1 DEF TypeOK
<1>4. InPlace(d)
  BY DEF Places
<1>5. held[d] = {} /\ file[d] # "open" /\ ~wq[d]
  BY <1>1, <1>4, PlacesApart DEF InPlace, HeldInPhase, FileHolds, QueueHolds, Exiting
<1>6. HeldInPhase(d)'
  <2>1. CASE Configured(d)
    BY <1>1, <1>3, <1>5, <2>1, BeforeIs DEF HeldInPhase, Labels
  <2>2. CASE ~Configured(d)
    BY <1>1, <1>3, <1>5, <2>2 DEF HeldInPhase, Labels, Resources
  <2> QED
    BY <2>1, <2>2
<1>7. PointersFollow(d)'
  <2>1. "loaded" \notin Resources \cup Labels
    BY PlacesApart
  <2> QED
    BY <1>1, <1>3, <1>4, <2>1 DEF InPlace, PointersFollow, Configured
<1>8. FileHolds(d)' /\ QueueHolds(d)'
  BY <1>1, <1>4, <1>5 DEF InPlace, FileHolds, QueueHolds
<1>9. LoadOrder'
  BY <1>1, <1>3, OrderKept
<1> QED
  BY <1>1, <1>2, <1>3, <1>6, <1>7, <1>8, <1>9, StepInPlace DEF InPlace, Untouched

\* A module that init or its labels are still at has no work queue.
LEMMA NoQueueYet ==
  ASSUME NEW d \in Drivers, InPlace(d), phase[d] \in Resources \cup Labels
  PROVE  ~wq[d] /\ pending[d] = "none" /\ running[d] = "none"
BY PlacesApart DEF InPlace, QueueHolds

LEMMA AcquireKeeps ==
  ASSUME TypeOK, Places, NEW d \in Drivers, Acquire(d)
  PROVE  TypeOK' /\ Places'
<1>1. PICK r \in Resources \ {"driver"} :
        /\ phase[d] = r
        /\ phase' = [phase EXCEPT ![d] = Following[r]]
        /\ held' = [held EXCEPT ![d] = @ \cup {r}]
        /\ ret' = [ret EXCEPT ![d] = IF r \in {"region", "cdev"} THEN 0 ELSE @]
        /\ devptr' = [devptr EXCEPT ![d] = IF r = "memory" THEN "live" ELSE @]
        /\ classptr' = [classptr EXCEPT ![d] = IF r = "class" THEN "live" ELSE @]
        /\ UNCHANGED <<fex, client, wq, pending, running, file, asleep, oops>>
  BY DEF Acquire, probeVars, workVars
<1>2. Following[r] \in Resources /\ Before[Following[r]] = Before[r] \cup {r}
  BY FollowingFacts
<1>3. TypeOK'
  <2>1. held' \in [Drivers -> SUBSET Resources] /\ ret' \in [Drivers -> {-1, 0}]
    BY <1>1 DEF TypeOK
  <2>2. /\ devptr' \in [Drivers -> {"null", "live", "freed"}]
        /\ classptr' \in [Drivers -> {"null", "live", "freed", "error"}]
    BY <1>1 DEF TypeOK
  <2>3. phase' \in [Drivers -> Phases]
    BY <1>1, <1>2, PlacesApart DEF TypeOK
  <2> QED
    BY <1>1, <2>1, <2>2, <2>3 DEF TypeOK
<1>4. /\ phase'[d] = Following[r]
      /\ held'[d] = held[d] \cup {r}
      /\ devptr'[d] = IF r = "memory" THEN "live" ELSE devptr[d]
      /\ classptr'[d] = IF r = "class" THEN "live" ELSE classptr[d]
      /\ \A c \in Drivers \ {d} :
           /\ phase'[c] = phase[c] /\ held'[c] = held[c]
           /\ devptr'[c] = devptr[c] /\ classptr'[c] = classptr[c]
  BY <1>1 DEF TypeOK
<1>5. InPlace(d)
  BY DEF Places
<1>6. phase[d] \notin Labels \cup Exiting \cup {"off", "loaded"}
  BY <1>1, PlacesApart
<1>7. phase'[d] \in Resources /\ phase'[d] \notin Labels \cup Exiting \cup {"off", "loaded"}
  BY <1>2, <1>4, PlacesApart
<1>8. HeldInPhase(d)'
  <2>1. held'[d] = Before[phase'[d]]
    BY <1>1, <1>2, <1>4, <1>5 DEF InPlace, HeldInPhase
  <2> QED
    BY <1>7, <2>1 DEF HeldInPhase, Exiting
<1>9. PointersFollow(d)'
  BY <1>1, <1>4, <1>5 DEF InPlace, PointersFollow, Configured
<1>10. FileHolds(d)'
  BY <1>1, <1>4, <1>5, <1>6, <1>7 DEF InPlace, FileHolds
<1>11. QueueHolds(d)'
  BY <1>1, <1>5, NoQueueYet DEF QueueHolds
<1>12. LoadOrder'
  BY <1>1, <1>4, <1>6, OrderKept
<1> QED
  BY <1>1, <1>3, <1>4, <1>8, <1>9, <1>10, <1>11, <1>12, StepInPlace DEF InPlace, Untouched

\* Init breaks off, wherever that is.
LEMMA FailureKeeps ==
  ASSUME TypeOK, Places, NEW d \in Drivers, AcquireFails(d)
  PROVE  TypeOK' /\ Places'
<1>1. PICK r \in Resources \ {"sem"} :
        /\ phase[d] = r
        /\ phase' = [phase EXCEPT ![d] = Label[r]]
        /\ ret' = [ret EXCEPT ![d] = IF r \in {"region", "cdev", "driver"} THEN -1 ELSE @]
        /\ classptr' = [classptr EXCEPT ![d] = IF r = "class" THEN "error" ELSE @]
        /\ UNCHANGED <<fex, held, devptr, client, wq, pending, running, file, asleep, oops>>
  BY DEF AcquireFails, probeVars, workVars
<1>2. Label[r] \in Labels /\ HeldAt[Label[r]] = Before[r] \ {"sem"}
  BY LabelFacts
<1>3. TypeOK'
  <2>1. phase' \in [Drivers -> Phases]
    BY <1>1, <1>2, PlacesApart DEF TypeOK
  <2>2. ret' \in [Drivers -> {-1, 0}]
    BY <1>1 DEF TypeOK
  <2>3. classptr' \in [Drivers -> {"null", "live", "freed", "error"}]
    BY <1>1 DEF TypeOK
  <2> QED
    BY <1>1, <2>1, <2>2, <2>3 DEF TypeOK
<1>4. /\ phase'[d] = Label[r]
      /\ classptr'[d] = IF r = "class" THEN "error" ELSE classptr[d]
      /\ \A c \in Drivers \ {d} : phase'[c] = phase[c] /\ classptr'[c] = classptr[c]
  BY <1>1 DEF TypeOK
<1>5. InPlace(d)
  BY DEF Places
<1>6. held[d] = Before[r]
  BY <1>1, <1>5 DEF InPlace, HeldInPhase
<1>7. phase[d] \notin Labels \cup Exiting \cup {"off", "loaded"}
  BY <1>1, PlacesApart
<1>8. phase'[d] \in Labels /\ phase'[d] \notin Resources \cup Exiting \cup {"off", "loaded"}
  BY <1>2, <1>4, PlacesApart
<1>9. "node" \in held[d] => "sem" \in held[d]
  BY <1>6, BeforeFacts, BeforeIs
<1>10. HeldInPhase(d)'
  <2>1. "sem" \in held[d] => "memory" \in held[d]
    BY <1>6, BeforeFacts
  <2>2. Undoing(Label[r], held[d])
    BY <1>2, <1>6, <1>9, <2>1 DEF Undoing
  <2> QED
    BY <1>1, <1>4, <1>8, <2>2 DEF HeldInPhase, Exiting
<1>11. PointersFollow(d)'
  <2>1. r = "class" => "class" \notin held[d]
    BY <1>6, BeforeFacts
  <2> QED
    BY <1>1, <1>4, <1>5, <2>1 DEF InPlace, PointersFollow, Configured
<1>12. FileHolds(d)'
  BY <1>1, <1>5, <1>7, <1>8, <1>9 DEF InPlace, FileHolds
<1>13. QueueHolds(d)'
  BY <1>1, <1>5, NoQueueYet DEF QueueHolds
<1>14. LoadOrder'
  BY <1>1, <1>4, <1>7, OrderKept
<1> QED
  BY <1>1, <1>3, <1>4, <1>10, <1>11, <1>12, <1>13, <1>14, StepInPlace DEF InPlace, Untouched

\* Every label finds what it releases.
LEMMA UndoKeeps ==
  ASSUME TypeOK, Places, oops = Fine, NEW d \in Drivers, Undo(d)
  PROVE  TypeOK' /\ Places' /\ oops' = Fine
<1>1. PICK label \in Labels \ {"FAIL"} :
        /\ phase[d] = label
        /\ phase' = [phase EXCEPT ![d] = Below[label]]
        /\ Release(d, {Released[label]})
        /\ classptr' = [classptr EXCEPT ![d] = IF Released[label] = "class" THEN "freed" ELSE @]
        /\ IF Released[label] = "memory" THEN Free(d) ELSE UNCHANGED <<devptr, file>>
        /\ UNCHANGED <<fex, ret, client, wq, pending, running, asleep>>
  BY DEF Undo, probeVars, workVars
<1> DEFINE r == Released[label]
           below == Below[label]
<1>2. /\ below \in Labels /\ r \in Resources \ {"sem", "driver"}
      /\ HeldAt[label] = HeldAt[below] \cup {r} /\ r \notin HeldAt[below]
      /\ r = "memory" => "node" \notin HeldAt[label]
  BY BelowFacts
<1> HIDE DEF r, below
<1>3. InPlace(d)
  BY DEF Places
<1>4. Undoing(label, held[d])
  BY <1>1, <1>3 DEF InPlace, HeldInPhase
<1>5. r \in held[d]
  BY <1>2, <1>4 DEF Undoing
<1>6. Release(d, {r})
  BY <1>1 DEF r
<1>7. /\ held' \in [Drivers -> SUBSET Resources] /\ oops' = Fine
      /\ held'[d] = held[d] \ IF r = "memory" THEN {r, "sem"} ELSE {r}
      /\ \A c \in Drivers \ {d} : held'[c] = held[c]
  BY <1>5, <1>6, ReleaseFacts
<1>8. /\ phase' = [phase EXCEPT ![d] = below]
      /\ classptr' = [classptr EXCEPT ![d] = IF r = "class" THEN "freed" ELSE @]
      /\ IF r = "memory" THEN Free(d) ELSE UNCHANGED <<devptr, file>>
  BY <1>1 DEF r, below
<1>9. /\ phase' \in [Drivers -> Phases]
      /\ classptr' \in [Drivers -> {"null", "live", "freed", "error"}]
      /\ phase'[d] = below
      /\ classptr'[d] = IF r = "class" THEN "freed" ELSE classptr[d]
      /\ \A c \in Drivers \ {d} : phase'[c] = phase[c] /\ classptr'[c] = classptr[c]
  BY <1>2, <1>8, PlacesApart DEF TypeOK
<1>10. /\ devptr' \in [Drivers -> {"null", "live", "freed"}]
       /\ file' \in [Drivers -> {"closed", "open", "stale"}]
       /\ devptr'[d] = IF r = "memory" THEN "freed" ELSE devptr[d]
       /\ file'[d] = IF r = "memory" /\ file[d] = "open" THEN "stale" ELSE file[d]
       /\ \A c \in Drivers \ {d} : devptr'[c] = devptr[c] /\ file'[c] = file[c]
  <2>1. CASE r = "memory"
    BY <1>8, <2>1 DEF Free, TypeOK
  <2>2. CASE r # "memory"
    BY <1>8, <2>2 DEF TypeOK
  <2> QED
    BY <2>1, <2>2
<1>11. TypeOK'
  <2>1. oops' \in [kind : {"none", "null", "freed", "semaphore", "client", "release"},
                   driver : Drivers \cup {"none"}]
    BY <1>7 DEF Fine
  <2> QED
    BY <1>1, <1>7, <1>9, <1>10, <2>1 DEF TypeOK
<1>12. phase[d] \in Labels /\ phase[d] \notin Resources \cup Exiting \cup {"off", "loaded"}
  BY <1>1, PlacesApart
<1>13. phase'[d] \in Labels /\ phase'[d] \notin Resources \cup Exiting \cup {"off", "loaded"}
  BY <1>2, <1>9, PlacesApart
<1>14. HeldInPhase(d)'
  <2>1. held'[d] \ {"sem"} = HeldAt[below]
    BY <1>2, <1>4, <1>7 DEF Undoing
  <2>2. "sem" \in held'[d] => "memory" \in held'[d]
    BY <1>4, <1>7 DEF Undoing
  <2>3. "node" \in held'[d] => "sem" \in held'[d]
    BY <1>2, <1>4, <1>7 DEF Undoing
  <2>4. Undoing(below, held'[d])
    BY <2>1, <2>2, <2>3 DEF Undoing
  <2> QED
    BY <1>9, <1>13, <2>4 DEF HeldInPhase, Exiting
<1>15. PointersFollow(d)'
  BY <1>1, <1>2, <1>3, <1>7, <1>9, <1>10, <1>12 DEF InPlace, PointersFollow, Configured
<1>16. FileHolds(d)'
  BY <1>2, <1>3, <1>7, <1>10, <1>12, <1>13 DEF InPlace, FileHolds
<1>17. QueueHolds(d)'
  BY <1>1, <1>3, NoQueueYet DEF QueueHolds
<1>18. LoadOrder'
  BY <1>9, <1>12, OrderKept
<1> QED
  BY <1>1, <1>7, <1>9, <1>10, <1>11, <1>14, <1>15, <1>16, <1>17, <1>18, StepInPlace
  DEF InPlace, Untouched

\* What becomes of a module that goes.
LEMMA GoneFacts ==
  ASSUME TypeOK, NEW d \in Drivers, Gone(d)
  PROVE  /\ phase' \in [Drivers -> Phases] /\ ret' \in [Drivers -> {-1, 0}]
         /\ devptr' \in [Drivers -> {"null", "live", "freed"}]
         /\ classptr' \in [Drivers -> {"null", "live", "freed", "error"}]
         /\ client' \in [Drivers -> BOOLEAN]
         /\ phase'[d] = "off" /\ devptr'[d] = "null" /\ classptr'[d] = "null"
         /\ \A c \in Drivers \ {d} :
              /\ phase'[c] = phase[c] /\ devptr'[c] = devptr[c]
              /\ classptr'[c] = classptr[c] /\ client'[c] = client[c]
<1>1. /\ phase' = [phase EXCEPT ![d] = "off"] /\ ret' = [ret EXCEPT ![d] = -1]
      /\ devptr' = [devptr EXCEPT ![d] = "null"] /\ classptr' = [classptr EXCEPT ![d] = "null"]
      /\ client' = [client EXCEPT ![d] = FALSE]
  BY DEF Gone
<1>2. phase' \in [Drivers -> Phases] /\ ret' \in [Drivers -> {-1, 0}]
  BY <1>1 DEF TypeOK, Phases
<1>3. /\ devptr' \in [Drivers -> {"null", "live", "freed"}]
      /\ classptr' \in [Drivers -> {"null", "live", "freed", "error"}]
  BY <1>1 DEF TypeOK
<1>4. client' \in [Drivers -> BOOLEAN]
  BY <1>1 DEF TypeOK
<1>5. /\ phase'[d] = "off" /\ devptr'[d] = "null" /\ classptr'[d] = "null"
      /\ \A c \in Drivers \ {d} :
           /\ phase'[c] = phase[c] /\ devptr'[c] = devptr[c]
           /\ classptr'[c] = classptr[c] /\ client'[c] = client[c]
  BY <1>1 DEF TypeOK
<1> QED
  BY <1>2, <1>3, <1>4, <1>5

\* A module that goes holds nothing and has no work queue.
LEMMA GoneInPlace ==
  ASSUME TypeOK, NEW d \in Drivers, Gone(d), held'[d] = {}, file'[d] # "open",
         wq'[d] = FALSE, pending'[d] = "none", running'[d] = "none"
  PROVE  InPlace(d)'
<1>1. phase'[d] = "off" /\ devptr'[d] = "null" /\ classptr'[d] = "null"
  BY GoneFacts
<1>2. HeldInPhase(d)'
  BY <1>1, PlacesApart DEF HeldInPhase, Exiting
<1>3. PointersFollow(d)' /\ FileHolds(d)' /\ QueueHolds(d)'
  BY <1>1, PlacesApart DEF PointersFollow, FileHolds, QueueHolds
<1> QED
  BY <1>2, <1>3 DEF InPlace

LEMMA UndoneKeeps ==
  ASSUME TypeOK, Places, NEW d \in Drivers, Undone(d)
  PROVE  TypeOK' /\ Places'
<1>1. /\ phase[d] = "FAIL"
      /\ UNCHANGED <<fex, held, wq, pending, running, file, asleep, oops>>
  BY DEF Undone, workVars
<1>2. InPlace(d)
  BY DEF Places
<1>3. /\ held[d] = {} /\ file[d] # "open"
      /\ wq[d] = FALSE /\ pending[d] = "none" /\ running[d] = "none"
  <2>1. phase[d] \in Labels /\ phase[d] \notin Resources \cup {"loaded"}
    BY <1>1, PlacesApart DEF Labels
  <2>2. held[d] = {}
    <3>1. held[d] \ {"sem"} = {} /\ ("sem" \in held[d] => "memory" \in held[d])
      BY <1>1, <1>2, <2>1 DEF InPlace, HeldInPhase, Undoing, HeldAt
    <3> QED
      BY <3>1
  <2>3. ~wq[d] /\ pending[d] = "none" /\ running[d] = "none"
    BY <1>2, <2>1, NoQueueYet
  <2> QED
    BY <1>2, <2>1, <2>2, <2>3 DEF InPlace, FileHolds, TypeOK
<1>4. CASE /\ phase' = [phase EXCEPT ![d] = "loaded"]
           /\ UNCHANGED <<ret, devptr, classptr, client>>
  <2>1. TypeOK'
    <3>1. phase' \in [Drivers -> Phases]
      BY <1>4 DEF TypeOK, Phases
    <3> QED
      BY <1>1, <1>4, <3>1 DEF TypeOK
  <2>2. phase'[d] = "loaded" /\ \A c \in Drivers \ {d} : phase'[c] = phase[c]
    BY <1>4 DEF TypeOK
  <2>3. HeldInPhase(d)'
    BY <1>1, <1>3, <2>2, PlacesApart DEF HeldInPhase, Exiting
  <2>4. PointersFollow(d)' /\ FileHolds(d)' /\ QueueHolds(d)'
    <3>1. phase[d] \in Labels
      BY <1>1 DEF Labels
    <3> QED
      BY <1>1, <1>2, <1>3, <1>4, <2>2, <3>1
      DEF InPlace, PointersFollow, FileHolds, QueueHolds, Configured
  <2>5. LoadOrder'
    BY <1>1, <2>2, OrderKept
  <2> QED
    BY <1>1, <1>4, <2>1, <2>2, <2>3, <2>4, <2>5, StepInPlace DEF InPlace, Untouched
<1>5. CASE Gone(d)
  <2>1. TypeOK'
    BY <1>1, <1>5, GoneFacts DEF TypeOK
  <2>2. InPlace(d)'
    BY <1>1, <1>3, <1>5, GoneInPlace
  <2>3. \A c \in Drivers \ {d} : Untouched(c)
    BY <1>1, <1>5, GoneFacts DEF Untouched
  <2>4. LoadOrder'
    BY <1>1, <1>5, GoneFacts, OrderKept
  <2> QED
    BY <1>1, <2>1, <2>2, <2>3, <2>4, StepInPlace
<1> QED
  BY <1>4, <1>5 DEF Undone

-----------------------------------------------------------------------------
(***************************************************************************)
(* The probe.                                                              *)
(***************************************************************************)
LEMMA ProbeKeeps ==
  ASSUME TypeOK, Places, NEW d \in Drivers, ProbeStep(d)
  PROVE  TypeOK' /\ Places'
<1>1. /\ phase[d] = "driver"
      /\ held' = [held EXCEPT ![d] = @ \cup {"driver"}]
      /\ phase' = [phase EXCEPT ![d] = "loaded"]
      /\ ret' = [ret EXCEPT ![d] = 0]
      /\ UNCHANGED <<fex, devptr, classptr, running, file, asleep, oops>>
  BY DEF ProbeStep, NoChip, NoQueue, Probe, Registered
<1>2. InPlace(d)
  BY DEF Places
<1>3. /\ ~wq[d] /\ pending[d] = "none" /\ running[d] = "none"
      /\ held[d] = Before["driver"]
      /\ phase[d] \in Resources /\ phase[d] \notin Labels \cup {"off", "loaded"}
  <2>1. phase[d] \in Resources
    BY <1>1 DEF Resources
  <2> QED
    BY <1>1, <1>2, <2>1, NoQueueYet, PlacesApart DEF InPlace, HeldInPhase
<1>4. /\ client' \in [Drivers -> BOOLEAN] /\ wq' \in [Drivers -> BOOLEAN]
      /\ pending' \in [Drivers -> {"none", "init", "sure", "suspend", "resume"}]
      /\ \A c \in Drivers \ {d} :
           client'[c] = client[c] /\ wq'[c] = wq[c] /\ pending'[c] = pending[c]
      /\ wq'[d] => client'[d]
      /\ pending'[d] \in {"none", "init"} /\ (pending'[d] # "none" => wq'[d])
  <2>1. CASE NoChip(d)
    BY <1>3, <2>1 DEF NoChip, TypeOK
  <2>2. CASE NoQueue(d)
    <3>1. client' = [client EXCEPT ![d] = TRUE] /\ UNCHANGED <<wq, pending>>
      BY <2>2 DEF NoQueue
    <3> QED
      BY <1>3, <3>1 DEF TypeOK
  <2>3. CASE Probe(d)
    <3>1. /\ client' = [client EXCEPT ![d] = TRUE] /\ wq' = [wq EXCEPT ![d] = TRUE]
          /\ pending' = [pending EXCEPT ![d] = "init"]
      BY <2>3 DEF Probe
    <3>2. client' \in [Drivers -> BOOLEAN] /\ wq' \in [Drivers -> BOOLEAN]
      BY <3>1 DEF TypeOK
    <3>3. pending' \in [Drivers -> {"none", "init", "sure", "suspend", "resume"}]
      BY <3>1 DEF TypeOK
    <3> QED
      BY <3>1, <3>2, <3>3 DEF TypeOK
  <2> QED
    BY <2>1, <2>2, <2>3 DEF ProbeStep
<1>5. TypeOK'
  <2>1. /\ held' \in [Drivers -> SUBSET Resources] /\ ret' \in [Drivers -> {-1, 0}]
        /\ phase' \in [Drivers -> Phases]
    BY <1>1 DEF TypeOK, Phases, Resources
  <2>2. \A c \in Drivers : {pending'[c], running'[c]} \subseteq Works[c] \cup {"none"}
    <3>1. \A c \in Drivers : "init" \in Works[c]
      BY DEF Works, Npca110Works, Ntp8230Works
    <3> QED
      BY <1>1, <1>4, <3>1 DEF TypeOK
  <2> QED
    BY <1>1, <1>4, <2>1, <2>2 DEF TypeOK
<1>6. /\ held'[d] = Resources /\ phase'[d] = "loaded"
      /\ \A c \in Drivers \ {d} : held'[c] = held[c] /\ phase'[c] = phase[c]
  <2>1. held'[d] = held[d] \cup {"driver"} /\ phase'[d] = "loaded"
    BY <1>1 DEF TypeOK
  <2>2. held[d] \cup {"driver"} = Resources
    BY <1>3, BeforeIs DEF Resources
  <2> QED
    BY <1>1, <2>1, <2>2 DEF TypeOK
<1>7. /\ "memory" \in held[d] /\ "class" \in held[d]
      /\ {"memory", "class", "sem", "driver"} \subseteq Resources
  BY <1>3, BeforeIs DEF Resources
<1>8. HeldInPhase(d)'
  BY <1>6, PlacesApart DEF HeldInPhase, Exiting
<1>9. PointersFollow(d)'
  BY <1>1, <1>2, <1>3, <1>6, <1>7 DEF InPlace, PointersFollow, Configured
<1>10. FileHolds(d)'
  BY <1>6, <1>7 DEF FileHolds
<1>11. QueueHolds(d)'
  <2>1. devptr'[d] # "null"
    BY <1>1, <1>2, <1>7 DEF InPlace, PointersFollow
  <2> QED
    BY <1>1, <1>3, <1>4, <1>6, <1>7, <2>1 DEF QueueHolds
<1>12. LoadOrder'
  BY <1>3, <1>6, OrderKept
<1> QED
  BY <1>1, <1>4, <1>5, <1>6, <1>8, <1>9, <1>10, <1>11, <1>12, StepInPlace DEF InPlace, Untouched

-----------------------------------------------------------------------------
(***************************************************************************)
(* The exit functions.                                                     *)
(***************************************************************************)
LEMMA EnterExitKeeps ==
  ASSUME TypeOK, Places, NEW d \in Drivers, EnterExit(d)
  PROVE  TypeOK' /\ Places'
<1>1. /\ phase[d] = "loaded" /\ file[d] # "open"
      /\ d = FlagOwner => phase["ntp8230"] = "off"
      /\ phase' = [phase EXCEPT ![d] = "exit_class"]
      /\ UNCHANGED <<fex, ret, held, devptr, classptr, client, wq, pending, running, file,
                     asleep, oops>>
  BY DEF EnterExit, probeVars, workVars
<1>2. TypeOK'
  <2>1. phase' \in [Drivers -> Phases]
    BY <1>1 DEF TypeOK, Phases, Exiting
  <2> QED
    BY <1>1, <2>1 DEF TypeOK
<1>3. phase'[d] = "exit_class" /\ \A c \in Drivers \ {d} : phase'[c] = phase[c]
  BY <1>1 DEF TypeOK
<1>4. InPlace(d)
  BY DEF Places
<1>5. HeldInPhase(d)'
  BY <1>1, <1>3, <1>4, PlacesApart DEF InPlace, HeldInPhase, Exiting
<1>6. PointersFollow(d)' /\ FileHolds(d)' /\ QueueHolds(d)'
  <2>1. phase'[d] \in Exiting /\ phase'[d] \notin Resources \cup Labels
    BY <1>3, PlacesApart DEF Exiting
  <2> QED
    BY <1>1, <1>4, <2>1 DEF InPlace, PointersFollow, FileHolds, QueueHolds, Configured
<1>7. LoadOrder'
  BY <1>1, <1>3, OrderKept
<1> QED
  BY <1>1, <1>2, <1>3, <1>5, <1>6, <1>7, StepInPlace DEF InPlace, Untouched

\* A module that exits is at none of the places of init, and no file of it is
\* open.
LEMMA ExitingFacts ==
  ASSUME NEW d \in Drivers, phase[d] \in Exiting
  PROVE  /\ phase[d] \notin Resources \cup Labels \cup {"off", "loaded"}
         /\ FileHolds(d) => file[d] # "open"
BY PlacesApart DEF FileHolds

\* A step within exit leaves the file, and work that has its queue.
LEMMA ExitStepHolds ==
  ASSUME NEW d \in Drivers, InPlace(d), phase[d] \in Exiting, phase'[d] \in Exiting,
         file'[d] = file[d], UNCHANGED <<fex, wq, client, pending, running>>,
         "driver" \in held[d] => "driver" \in held'[d] \/ phase'[d] = "remove",
         phase[d] # "remove",
         devptr[d] # "null" <=> devptr'[d] # "null",
         devptr'[d] = "live" <=> "memory" \in held'[d],
         classptr'[d] = "live" <=> "class" \in held'[d]
  PROVE  PointersFollow(d)' /\ FileHolds(d)' /\ QueueHolds(d)'
<1>1. phase'[d] \notin Resources \cup Labels \cup {"off", "loaded"} /\ file[d] # "open"
  BY ExitingFacts, PlacesApart DEF InPlace
<1>2. PointersFollow(d)'
  BY <1>1 DEF InPlace, PointersFollow, Configured
<1>3. QueueHolds(d)'
  BY DEF InPlace, QueueHolds
<1> QED
  BY <1>1, <1>2, <1>3 DEF FileHolds

LEMMA ExitClassKeeps ==
  ASSUME TypeOK, Places, oops = Fine, NEW d \in Drivers, ExitClass(d)
  PROVE  IInv'
<1>1. /\ phase[d] = "exit_class"
      /\ phase' = [phase EXCEPT ![d] = "exit_memory"]
      /\ IF classptr[d] = "null"
         THEN UNCHANGED <<held, classptr, oops>>
         ELSE Release(d, {"node", "class"}) /\ classptr' = [classptr EXCEPT ![d] = "freed"]
      /\ UNCHANGED <<fex, ret, devptr, client, wq, pending, running, file, asleep>>
  BY DEF ExitClass, probeVars, workVars
<1>2. InPlace(d)
  BY DEF Places
<1>3. held[d] \in {{}, Resources} /\ (classptr[d] = "null" => held[d] = {})
  BY <1>1, <1>2 DEF InPlace, HeldInPhase, PointersFollow, Resources
<1>4. /\ held' \in [Drivers -> SUBSET Resources]
      /\ held'[d] = held[d] \ {"node", "class"}
      /\ \A c \in Drivers \ {d} : held'[c] = held[c]
      /\ oops' \in [kind : {"none", "null", "freed", "semaphore", "client", "release"},
                     driver : Drivers \cup {"none"}]
      /\ held[d] = Resources => oops' = Fine
      /\ oops' = Fine \/ Oops(d, "release")
  <2>1. CASE classptr[d] = "null"
    BY <1>1, <1>3, <2>1 DEF TypeOK
  <2>2. CASE classptr[d] # "null"
    <3>1. {"node", "class"} \subseteq Resources
      BY DEF Resources
    <3> QED
      BY <1>1, <2>2, <3>1, ReleaseFacts
  <2> QED
    BY <2>1, <2>2
<1>5. /\ phase' \in [Drivers -> Phases] /\ phase'[d] = "exit_memory"
      /\ classptr' \in [Drivers -> {"null", "live", "freed", "error"}]
      /\ classptr'[d] \in {"null", "freed"}
      /\ \A c \in Drivers \ {d} : phase'[c] = phase[c] /\ classptr'[c] = classptr[c]
  <2>1. /\ phase' \in [Drivers -> Phases] /\ phase'[d] = "exit_memory"
        /\ \A c \in Drivers \ {d} : phase'[c] = phase[c]
    BY <1>1 DEF TypeOK, Phases, Exiting
  <2>2. CASE classptr[d] = "null"
    BY <1>1, <2>1, <2>2 DEF TypeOK
  <2>3. CASE classptr[d] # "null"
    BY <1>1, <2>1, <2>3 DEF TypeOK
  <2> QED
    BY <2>2, <2>3
<1>6. TypeOK'
  BY <1>1, <1>4, <1>5 DEF TypeOK
<1>7. phase[d] \in Exiting /\ phase'[d] \in Exiting
  BY <1>1, <1>5 DEF Exiting
<1>8. HeldInPhase(d)'
  <2>1. held'[d] \in {{}, {"region", "memory", "cdev", "sem", "driver"}}
    BY <1>3, <1>4 DEF Resources
  <2> QED
    BY <1>5, <1>7, <2>1, PlacesApart DEF HeldInPhase
<1>9. PointersFollow(d)' /\ FileHolds(d)' /\ QueueHolds(d)'
  <2>1. devptr'[d] = "live" <=> "memory" \in held'[d]
    BY <1>1, <1>2, <1>4 DEF InPlace, PointersFollow
  <2> QED
    BY <1>1, <1>2, <1>4, <1>5, <1>7, <2>1, ExitStepHolds
<1>10. LoadOrder'
  BY <1>1, <1>5, OrderKept
<1>11. Places'
  BY <1>1, <1>4, <1>5, <1>8, <1>9, <1>10, StepInPlace DEF InPlace, Untouched
<1>12. InvalidUsesExplained'
  <2>1. CASE oops' = Fine
    BY <2>1, NothingToExplain
  <2>2. CASE oops' # Fine
    <3>1. Oops(d, "release") /\ held'[d] = {}
      BY <1>3, <1>4, <2>2
    <3>2. Explains(d, "release")'
      BY <1>7, <3>1 DEF Explains
    <3> QED
      BY <3>1, <3>2, UseExplained
  <2> QED
    BY <2>1, <2>2
<1> QED
  BY <1>6, <1>11, <1>12 DEF IInv

LEMMA ExitMemoryKeeps ==
  ASSUME TypeOK, Places, oops = Fine, NEW d \in Drivers, ExitMemory(d)
  PROVE  IInv'
<1>1. /\ phase[d] = "exit_memory"
      /\ phase' = [phase EXCEPT ![d] = "exit_region"]
      /\ IF devptr[d] = "null"
         THEN UNCHANGED <<held, devptr, file, oops>>
         ELSE Release(d, {"cdev", "memory"}) /\ Free(d)
      /\ UNCHANGED <<fex, ret, classptr, client, wq, pending, running, asleep>>
  BY DEF ExitMemory, probeVars, workVars
<1>2. InPlace(d)
  BY DEF Places
<1>3. /\ held[d] \in {{}, {"region", "memory", "cdev", "sem", "driver"}}
      /\ devptr[d] = "null" => held[d] = {}
  BY <1>1, <1>2 DEF InPlace, HeldInPhase, PointersFollow
<1>4. /\ held' \in [Drivers -> SUBSET Resources]
      /\ held'[d] = held[d] \ {"cdev", "memory", "sem"}
      /\ \A c \in Drivers \ {d} : held'[c] = held[c]
      /\ oops' \in [kind : {"none", "null", "freed", "semaphore", "client", "release"},
                     driver : Drivers \cup {"none"}]
      /\ {"cdev", "memory"} \subseteq held[d] => oops' = Fine
      /\ oops' = Fine \/ Oops(d, "release")
  <2>1. CASE devptr[d] = "null"
    BY <1>1, <1>3, <2>1 DEF TypeOK
  <2>2. CASE devptr[d] # "null"
    BY <1>1, <2>2, ReleaseFacts
  <2> QED
    BY <2>1, <2>2
<1>5. phase[d] \in Exiting /\ file[d] # "open"
  BY <1>1, <1>2, ExitingFacts DEF InPlace, Exiting
<1>6. /\ devptr' \in [Drivers -> {"null", "live", "freed"}]
      /\ file' \in [Drivers -> {"closed", "open", "stale"}]
      /\ devptr'[d] = IF devptr[d] = "null" THEN "null" ELSE "freed"
      /\ file'[d] = file[d]
      /\ \A c \in Drivers \ {d} : devptr'[c] = devptr[c] /\ file'[c] = file[c]
  <2>1. CASE devptr[d] = "null"
    BY <1>1, <2>1 DEF TypeOK
  <2>2. CASE devptr[d] # "null"
    BY <1>1, <1>5, <2>2 DEF Free, TypeOK
  <2> QED
    BY <2>1, <2>2
<1>7. /\ phase' \in [Drivers -> Phases] /\ phase'[d] = "exit_region"
      /\ \A c \in Drivers \ {d} : phase'[c] = phase[c]
  BY <1>1 DEF TypeOK, Phases, Exiting
<1>8. TypeOK'
  BY <1>1, <1>4, <1>6, <1>7 DEF TypeOK
<1>9. phase'[d] \in Exiting
  BY <1>7 DEF Exiting
<1>10. HeldInPhase(d)'
  <2>1. held'[d] \in {{}, {"region", "driver"}}
    BY <1>3, <1>4
  <2> QED
    BY <1>7, <1>9, <2>1, PlacesApart DEF HeldInPhase
<1>11. PointersFollow(d)' /\ FileHolds(d)' /\ QueueHolds(d)'
  <2>1. classptr'[d] = "live" <=> "class" \in held'[d]
    BY <1>1, <1>2, <1>4 DEF InPlace, PointersFollow
  <2> QED
    BY <1>1, <1>2, <1>4, <1>5, <1>6, <1>9, <2>1, ExitStepHolds
<1>12. LoadOrder'
  BY <1>1, <1>7, OrderKept
<1>13. Places'
  BY <1>1, <1>4, <1>6, <1>7, <1>10, <1>11, <1>12, StepInPlace DEF InPlace, Untouched
<1>14. InvalidUsesExplained'
  <2>1. CASE oops' = Fine
    BY <2>1, NothingToExplain
  <2>2. CASE oops' # Fine
    <3>1. Oops(d, "release") /\ held'[d] = {}
      BY <1>3, <1>4, <2>2
    <3>2. Explains(d, "release")'
      BY <1>9, <3>1 DEF Explains
    <3> QED
      BY <3>1, <3>2, UseExplained
  <2> QED
    BY <2>1, <2>2
<1> QED
  BY <1>8, <1>13, <1>14 DEF IInv

LEMMA ExitRegionKeeps ==
  ASSUME TypeOK, Places, NEW d \in Drivers, ExitRegion(d)
  PROVE  TypeOK' /\ Places'
<1>1. /\ phase[d] = "exit_region"
      /\ phase' = [phase EXCEPT ![d] = "exit_driver"]
      /\ held' = [held EXCEPT ![d] = @ \ {"region"}]
      /\ UNCHANGED <<fex, ret, devptr, classptr, client, wq, pending, running, file, asleep, oops>>
  BY DEF ExitRegion, probeVars, workVars
<1>2. TypeOK'
  <2>1. phase' \in [Drivers -> Phases] /\ held' \in [Drivers -> SUBSET Resources]
    BY <1>1 DEF TypeOK, Phases, Exiting
  <2> QED
    BY <1>1, <2>1 DEF TypeOK
<1>3. /\ phase'[d] = "exit_driver" /\ held'[d] = held[d] \ {"region"}
      /\ \A c \in Drivers \ {d} : phase'[c] = phase[c] /\ held'[c] = held[c]
  BY <1>1 DEF TypeOK
<1>4. InPlace(d)
  BY DEF Places
<1>5. phase[d] \in Exiting /\ phase'[d] \in Exiting
  BY <1>1, <1>3 DEF Exiting
<1>6. HeldInPhase(d)'
  <2>1. held'[d] \in {{}, {"driver"}}
    BY <1>1, <1>3, <1>4 DEF InPlace, HeldInPhase
  <2> QED
    BY <1>3, <1>5, <2>1, PlacesApart DEF HeldInPhase
<1>7. PointersFollow(d)' /\ FileHolds(d)' /\ QueueHolds(d)'
  BY <1>1, <1>3, <1>4, <1>5, ExitStepHolds DEF InPlace, PointersFollow
<1>8. LoadOrder'
  BY <1>1, <1>3, OrderKept
<1> QED
  BY <1>1, <1>2, <1>3, <1>6, <1>7, <1>8, StepInPlace DEF InPlace, Untouched

LEMMA ExitDriverKeeps ==
  ASSUME TypeOK, Places, oops = Fine, NEW d \in Drivers, ExitDriver(d)
  PROVE  IInv'
<1>1. /\ phase[d] = "exit_driver"
      /\ Release(d, {"driver"})
      /\ UNCHANGED <<fex, wq, pending, running, file, asleep>>
  BY DEF ExitDriver, workVars
<1>2. InPlace(d)
  BY DEF Places
<1>3. held[d] \in {{}, {"driver"}}
  BY <1>1, <1>2 DEF InPlace, HeldInPhase
<1>4. /\ held' \in [Drivers -> SUBSET Resources] /\ held'[d] = {}
      /\ \A c \in Drivers \ {d} : held'[c] = held[c]
      /\ oops' \in [kind : {"none", "null", "freed", "semaphore", "client", "release"},
                     driver : Drivers \cup {"none"}]
      /\ oops' = Fine \/ Oops(d, "release")
  BY <1>1, <1>3, ReleaseFacts
<1>5. /\ file[d] # "open" /\ "memory" \notin held[d] /\ "class" \notin held[d]
      /\ phase[d] \in Exiting
  BY <1>1, <1>2, <1>3, ExitingFacts DEF InPlace, Exiting
<1>6. /\ TypeOK' /\ Places'
      /\ phase'[d] \in {"remove", "off"}
  <2>1. CASE /\ wq[d]
             /\ phase' = [phase EXCEPT ![d] = "remove"]
             /\ UNCHANGED <<ret, devptr, classptr, client>>
    <3>1. TypeOK'
      <4>1. phase' \in [Drivers -> Phases]
        BY <2>1 DEF TypeOK, Phases, Exiting
      <4> QED
        BY <1>1, <1>4, <2>1, <4>1 DEF TypeOK
    <3>2. phase'[d] = "remove" /\ \A c \in Drivers \ {d} : phase'[c] = phase[c]
      BY <2>1 DEF TypeOK
    <3>3. phase'[d] \in Exiting
      BY <3>2 DEF Exiting
    <3>4. HeldInPhase(d)'
      BY <1>4, <3>2, <3>3, PlacesApart DEF HeldInPhase
    <3>5. PointersFollow(d)' /\ FileHolds(d)' /\ QueueHolds(d)'
      BY <1>1, <1>2, <1>4, <1>5, <2>1, <3>2, <3>3, ExitStepHolds DEF InPlace, PointersFollow
    <3>6. LoadOrder'
      BY <1>1, <3>2, OrderKept
    <3>7. Places'
      BY <1>1, <1>4, <2>1, <3>2, <3>4, <3>5, <3>6, StepInPlace DEF InPlace, Untouched
    <3> QED
      BY <3>1, <3>2, <3>7
  <2>2. CASE ~wq[d] /\ Gone(d)
    <3>1. TypeOK'
      BY <1>1, <1>4, <2>2, GoneFacts DEF TypeOK
    <3>2. InPlace(d)'
      <4>1. wq[d] = FALSE /\ pending[d] = "none" /\ running[d] = "none"
        BY <1>2, <2>2 DEF InPlace, QueueHolds, TypeOK
      <4> QED
        BY <1>1, <1>4, <1>5, <2>2, <4>1, GoneInPlace
    <3>3. \A c \in Drivers \ {d} : Untouched(c)
      BY <1>1, <1>4, <2>2, GoneFacts DEF Untouched
    <3>4. LoadOrder'
      BY <1>1, <2>2, GoneFacts, OrderKept
    <3>5. phase'[d] = "off"
      BY <2>2, GoneFacts
    <3> QED
      BY <1>1, <3>1, <3>2, <3>3, <3>4, <3>5, StepInPlace
  <2> QED
    BY <2>1, <2>2 DEF ExitDriver
<1>7. InvalidUsesExplained'
  <2>1. CASE oops' = Fine
    BY <2>1, NothingToExplain
  <2>2. CASE Oops(d, "release")
    <3>1. Explains(d, "release")'
      BY <1>4, <1>6 DEF Explains, Exiting
    <3> QED
      BY <2>2, <3>1, UseExplained
  <2> QED
    BY <1>4, <2>1, <2>2
<1> QED
  BY <1>6, <1>7 DEF IInv

LEMMA CancelKeeps ==
  ASSUME TypeOK, Places, NEW d \in Drivers, Cancel(d)
  PROVE  TypeOK' /\ Places'
<1>1. /\ pending' = [pending EXCEPT ![d] = "none"]
      /\ UNCHANGED <<fex, phase, ret, held, devptr, classptr, client, wq, running, file, asleep, oops>>
  BY DEF Cancel, moduleVars, probeVars
<1>2. pending'[d] = "none" /\ \A c \in Drivers \ {d} : pending'[c] = pending[c]
  BY <1>1 DEF TypeOK
<1>3. TypeOK'
  <2>1. pending' \in [Drivers -> {"none", "init", "sure", "suspend", "resume"}]
    BY <1>1 DEF TypeOK
  <2>2. \A c \in Drivers : {pending'[c], running'[c]} \subseteq Works[c] \cup {"none"}
    BY <1>1, <1>2 DEF TypeOK
  <2> QED
    BY <1>1, <2>1, <2>2 DEF TypeOK
<1>4. InPlace(d)
  BY DEF Places
<1>5. InPlace(d)'
  BY <1>1, <1>2, <1>4 DEF InPlace, HeldInPhase, PointersFollow, FileHolds, QueueHolds, Configured
<1>6. LoadOrder'
  BY <1>1 DEF Places, LoadOrder
<1> QED
  BY <1>1, <1>2, <1>3, <1>5, <1>6, StepInPlace DEF Untouched

LEMMA DestroyQueueKeeps ==
  ASSUME TypeOK, Places, NEW d \in Drivers, DestroyQueue(d)
  PROVE  TypeOK' /\ Places'
<1>1. /\ phase[d] = "remove" /\ pending[d] = "none" /\ running[d] = "none"
      /\ wq' = [wq EXCEPT ![d] = FALSE] /\ Gone(d)
      /\ UNCHANGED <<fex, held, pending, running, file, asleep, oops>>
  BY DEF DestroyQueue, workVars
<1>2. wq' \in [Drivers -> BOOLEAN] /\ wq'[d] = FALSE /\ \A c \in Drivers \ {d} : wq'[c] = wq[c]
  BY <1>1 DEF TypeOK
<1>3. held[d] = {} /\ file[d] # "open"
  BY <1>1, ExitingFacts DEF Places, InPlace, HeldInPhase, Exiting
<1>4. TypeOK'
  BY <1>1, <1>2, GoneFacts DEF TypeOK
<1>5. InPlace(d)'
  BY <1>1, <1>2, <1>3, GoneInPlace
<1>6. \A c \in Drivers \ {d} : Untouched(c)
  BY <1>1, <1>2, GoneFacts DEF Untouched
<1>7. LoadOrder'
  BY <1>1, GoneFacts, OrderKept
<1> QED
  BY <1>1, <1>4, <1>5, <1>6, <1>7, StepInPlace

-----------------------------------------------------------------------------
(***************************************************************************)
(* The workers.                                                            *)
(***************************************************************************)

\* Steps of work, of a file and of power management move no module.
LEMMA WorkInPlace ==
  ASSUME Places, NEW d \in Drivers, QueueHolds(d)',
         UNCHANGED <<fex, moduleVars, probeVars, file>>,
         \A c \in Drivers \ {d} : pending'[c] = pending[c] /\ running'[c] = running[c]
  PROVE  Places'
<1>1. UNCHANGED <<fex, phase, held, devptr, classptr, client, wq, file>>
  BY DEF moduleVars, probeVars
<1>2. ASSUME NEW c \in Drivers
      PROVE  InPlace(c)'
  <2>1. HeldInPhase(c)' /\ PointersFollow(c)' /\ FileHolds(c)'
    BY <1>1 DEF Places, InPlace, HeldInPhase, PointersFollow, FileHolds, Configured
  <2>2. QueueHolds(c)'
    BY <1>1 DEF Places, InPlace, QueueHolds
  <2> QED
    BY <2>1, <2>2 DEF InPlace
<1> QED
  BY <1>1, <1>2 DEF Places, LoadOrder

\* The memory of a driver whose work runs is freed only by its exit, while
\* remove has still to wait for the work.
LEMMA OwnMemory ==
  ASSUME TypeOK, Places, NEW d \in Drivers, wq[d], devptr[d] # "live"
  PROVE  devptr[d] = "freed" /\ phase[d] \in {"exit_region", "exit_driver", "remove"}
<1>1. HeldInPhase(d) /\ PointersFollow(d) /\ QueueHolds(d)
  BY DEF Places, InPlace
<1>2. devptr[d] = "freed" /\ "memory" \notin held[d]
  BY <1>1 DEF PointersFollow, QueueHolds, TypeOK
<1>3. phase[d] = "remove" \/ "driver" \in held[d]
  BY <1>1 DEF QueueHolds
<1>4. phase[d] \in Exiting \cup {"loaded"}
  BY <1>1 DEF QueueHolds
<1>5. phase[d] \in {"loaded", "exit_class"} => held[d] \in {{}, Resources}
  BY <1>1 DEF HeldInPhase
<1>6. "driver" \in Resources /\ "memory" \in Resources
  BY DEF Resources
<1>7. phase[d] \notin {"loaded", "exit_class"}
  BY <1>2, <1>3, <1>5, <1>6
<1>8. phase[d] # "exit_memory"
  BY <1>1, <1>2, <1>3 DEF HeldInPhase
<1> QED
  BY <1>2, <1>4, <1>7, <1>8 DEF Exiting

\* The memory of npca110 that the mute of ntp8230 looks at is there, or npca110
\* stayed without any.
LEMMA FlagMemory ==
  ASSUME TypeOK, Places, wq["ntp8230"], devptr["npca110"] # "live"
  PROVE  /\ phase["npca110"] = "loaded" /\ held["npca110"] = {}
         /\ devptr["npca110"] = "freed" => FailedQuietly("npca110")
         /\ devptr["npca110"] \in {"freed", "null"}
<1>1. "npca110" \in Drivers /\ "ntp8230" \in Drivers
  BY DEF Drivers
<1>2. HeldInPhase("npca110") /\ PointersFollow("npca110") /\ QueueHolds("ntp8230")
  BY <1>1 DEF Places, InPlace
<1>3. phase["ntp8230"] # "off"
  BY <1>2 DEF QueueHolds, Exiting
<1>4. phase["npca110"] = "loaded"
  BY <1>3 DEF Places, LoadOrder, FlagOwner
<1>5. "memory" \notin held["npca110"]
  BY <1>2 DEF PointersFollow
<1>6. held["npca110"] = {}
  <2>1. "memory" \in Resources
    BY DEF Resources
  <2> QED
    BY <1>2, <1>4, <1>5, <2>1 DEF HeldInPhase
<1>7. devptr["npca110"] = "freed" => Configured("npca110")
  BY <1>2 DEF PointersFollow
<1> QED
  BY <1>1, <1>4, <1>6, <1>7 DEF FailedQuietly, TypeOK

\* Work that uses its driver, or asks npca110 for its flag, makes only the
\* uses that are explained.
LEMMA WorkExplained ==
  ASSUME TypeOK, Places, oops = Fine, NEW d \in Drivers, wq[d],
         NEW uses, uses \subseteq Drivers, Use(d, uses),
         uses \subseteq {d} \/ (d = "ntp8230" /\ uses \subseteq {d, "npca110"}),
         UNCHANGED <<fex, moduleVars, probeVars, file>>
  PROVE  /\ InvalidUsesExplained'
         /\ oops' \in [kind : {"none", "null", "freed", "semaphore", "client", "release"},
                        driver : Drivers \cup {"none"}]
<1>1. UNCHANGED <<fex, phase, held, devptr, wq, file>>
  BY DEF moduleVars, probeVars
<1>2. CASE UNCHANGED oops
  <2>1. InvalidUsesExplained'
    BY <1>2, NothingToExplain
  <2> QED
    BY <1>2, <2>1 DEF TypeOK
<1>3. CASE \E o \in uses : devptr[o] # "live" /\ Oops(d, devptr[o])
  <2>1. PICK o \in uses : devptr[o] # "live" /\ Oops(d, devptr[o])
    BY <1>3
  <2>2. CASE o = d
    <3>1. devptr[o] = "freed" /\ phase[d] \in {"exit_region", "exit_driver", "remove"}
      BY <2>1, <2>2, OwnMemory
    <3>2. Explains(d, "freed")'
      BY <1>1, <3>1 DEF Explains
    <3>3. Oops(d, "freed")
      BY <2>1, <3>1
    <3>4. InvalidUsesExplained'
      BY <3>2, <3>3, UseExplained
    <3> QED
      BY <3>3, <3>4 DEF Oops
  <2>3. CASE d = "ntp8230" /\ o = "npca110"
    <3>1. /\ phase["npca110"] = "loaded" /\ held["npca110"] = {}
          /\ devptr["npca110"] = "freed" => FailedQuietly("npca110")
          /\ devptr["npca110"] \in {"freed", "null"}
      BY <2>1, <2>3, FlagMemory
    <3>2. FailedQuietly("npca110")' <=> FailedQuietly("npca110")
      BY <1>1 DEF FailedQuietly, Configured
    <3>3. CASE devptr["npca110"] = "freed"
      <4>1. Oops(d, "freed") /\ Explains(d, "freed")'
        BY <1>1, <2>1, <2>3, <3>1, <3>2, <3>3 DEF Explains
      <4>2. InvalidUsesExplained'
        BY <4>1, UseExplained
      <4> QED
        BY <4>1, <4>2 DEF Oops
    <3>4. CASE devptr["npca110"] = "null"
      <4>1. Oops(d, "null") /\ Explains(d, "null")'
        BY <1>1, <2>1, <2>3, <3>1, <3>4 DEF Explains
      <4>2. InvalidUsesExplained'
        BY <4>1, UseExplained
      <4> QED
        BY <4>1, <4>2 DEF Oops
    <3> QED
      BY <3>1, <3>3, <3>4
  <2> QED
    BY <2>2, <2>3
<1> QED
  BY <1>2, <1>3 DEF Use

\* What the work items of each driver use.
LEMMA UsesFacts ==
  ASSUME NEW d \in Drivers, NEW w \in Works[d]
  PROVE  /\ FirstUses(d, w) \subseteq Drivers
         /\ FirstUses(d, w) \subseteq {d} \/ (d = "ntp8230" /\ FirstUses(d, w) \subseteq {d, "npca110"})
         /\ \A uses \in LaterUses(d, w) : uses \subseteq {d}
<1>1. d \in {"npca110", "ntp8230"}
  BY DEF Drivers
<1>2. CASE d = "npca110"
  <2>1. w \in {"init", "sure"}
    BY <1>2 DEF Works, Drivers, Npca110Works
  <2>2. CASE w = "init"
    BY <1>2, <2>2 DEF FirstUses, LaterUses
  <2>3. CASE w = "sure"
    BY <1>2, <2>3 DEF FirstUses, LaterUses
  <2> QED
    BY <2>1, <2>2, <2>3
<1>3. CASE d = "ntp8230"
  <2>1. w \in {"init", "suspend", "resume"}
    BY <1>3 DEF Works, Drivers, Ntp8230Works
  <2>2. CASE w = "suspend"
    BY <1>3, <2>2 DEF FirstUses, LaterUses, Drivers, FlagOwner
  <2>3. CASE w \in {"init", "resume"}
    BY <1>3, <2>3 DEF FirstUses, LaterUses
  <2> QED
    BY <2>1, <2>2, <2>3
<1> QED
  BY <1>1, <1>2, <1>3

LEMMA StartWorkKeeps ==
  ASSUME TypeOK, Places, oops = Fine, NEW d \in Drivers, StartWork(d)
  PROVE  IInv'
<1>1. /\ pending[d] # "none"
      /\ Use(d, FirstUses(d, pending[d]))
      /\ running' = [running EXCEPT ![d] = pending[d]]
      /\ pending' = [pending EXCEPT ![d] = "none"]
      /\ UNCHANGED <<fex, moduleVars, probeVars, file, asleep>>
  BY DEF StartWork
<1>2. pending[d] \in Works[d] /\ wq[d]
  BY <1>1 DEF TypeOK, Places, InPlace, QueueHolds
<1>3. /\ InvalidUsesExplained'
      /\ oops' \in [kind : {"none", "null", "freed", "semaphore", "client", "release"},
                     driver : Drivers \cup {"none"}]
  <2> DEFINE uses == FirstUses(d, pending[d])
  <2>1. /\ uses \subseteq Drivers
        /\ uses \subseteq {d} \/ (d = "ntp8230" /\ uses \subseteq {d, "npca110"})
    BY <1>2, UsesFacts
  <2>2. Use(d, uses)
    BY <1>1
  <2> HIDE DEF uses
  <2> QED
    BY <1>1, <1>2, <2>1, <2>2, WorkExplained
<1>4. /\ running'[d] = pending[d] /\ pending'[d] = "none"
      /\ \A c \in Drivers \ {d} : pending'[c] = pending[c] /\ running'[c] = running[c]
  BY <1>1 DEF TypeOK
<1>5. TypeOK'
  <2>1. /\ running' \in [Drivers -> {"none", "init", "sure", "suspend", "resume"}]
        /\ pending' \in [Drivers -> {"none", "init", "sure", "suspend", "resume"}]
    BY <1>1 DEF TypeOK
  <2>2. \A c \in Drivers : {pending'[c], running'[c]} \subseteq Works[c] \cup {"none"}
    BY <1>4 DEF TypeOK
  <2> QED
    BY <1>1, <1>3, <2>1, <2>2 DEF TypeOK, moduleVars, probeVars
<1>6. QueueHolds(d)'
  BY <1>1, <1>2 DEF Places, InPlace, QueueHolds, moduleVars, probeVars
<1>7. Places'
  BY <1>1, <1>4, <1>6, WorkInPlace
<1> QED
  BY <1>3, <1>5, <1>7 DEF IInv

LEMMA EndWorkKeeps ==
  ASSUME TypeOK, Places, oops = Fine, NEW d \in Drivers, EndWork(d)
  PROVE  IInv'
<1>1. PICK uses \in LaterUses(d, running[d]) : Use(d, uses)
  BY DEF EndWork
<1>2. /\ running[d] # "none"
      /\ running' = [running EXCEPT ![d] = "none"]
      /\ UNCHANGED <<fex, moduleVars, probeVars, pending, file, asleep>>
  BY DEF EndWork
<1>3. running[d] \in Works[d] /\ wq[d]
  BY <1>2 DEF TypeOK, Places, InPlace, QueueHolds
<1>4. /\ InvalidUsesExplained'
      /\ oops' \in [kind : {"none", "null", "freed", "semaphore", "client", "release"},
                     driver : Drivers \cup {"none"}]
  <2>1. uses \subseteq {d}
    BY <1>1, <1>3, UsesFacts
  <2> QED
    BY <1>1, <1>2, <1>3, <2>1, WorkExplained
<1>5. running'[d] = "none" /\ \A c \in Drivers \ {d} : running'[c] = running[c]
  BY <1>2 DEF TypeOK
<1>6. TypeOK'
  <2>1. running' \in [Drivers -> {"none", "init", "sure", "suspend", "resume"}]
    BY <1>2 DEF TypeOK
  <2>2. \A c \in Drivers : {pending'[c], running'[c]} \subseteq Works[c] \cup {"none"}
    BY <1>2, <1>5 DEF TypeOK
  <2> QED
    BY <1>2, <1>4, <2>1, <2>2 DEF TypeOK, moduleVars, probeVars
<1>7. QueueHolds(d)'
  BY <1>2, <1>3 DEF Places, InPlace, QueueHolds, moduleVars, probeVars
<1>8. Places'
  BY <1>2, <1>5, <1>7, WorkInPlace
<1> QED
  BY <1>4, <1>6, <1>8 DEF IInv

-----------------------------------------------------------------------------
(***************************************************************************)
(* Files and power management.                                             *)
(***************************************************************************)
LEMMA FileKeeps ==
  ASSUME TypeOK, Places, NEW d \in Drivers, Open(d) \/ Close(d)
  PROVE  TypeOK' /\ Places'
<1>1. UNCHANGED <<fex, phase, ret, held, devptr, classptr, client, wq, pending, running, asleep, oops>>
  BY DEF Open, Close, moduleVars, probeVars, workVars
<1>2. InPlace(d)
  BY DEF Places
<1>3. /\ file' \in [Drivers -> {"closed", "open", "stale"}]
      /\ \A c \in Drivers \ {d} : file'[c] = file[c]
      /\ file'[d] = "open" =>
           "node" \in held[d] /\ phase[d] \in Resources \cup Labels \cup {"loaded"}
  BY DEF Open, Close, TypeOK
<1>4. TypeOK'
  BY <1>1, <1>3 DEF TypeOK
<1>5. FileHolds(d)'
  <2>1. "node" \in held[d] /\ phase[d] \in Labels \cup {"loaded"} => "sem" \in held[d]
    BY <1>2 DEF InPlace, HeldInPhase, Undoing, Resources
  <2> QED
    BY <1>1, <1>3, <2>1 DEF FileHolds
<1>6. HeldInPhase(d)' /\ PointersFollow(d)' /\ QueueHolds(d)'
  BY <1>1, <1>2 DEF InPlace, HeldInPhase, PointersFollow, QueueHolds, Configured
<1>7. LoadOrder'
  BY <1>1 DEF Places, LoadOrder
<1> QED
  BY <1>1, <1>3, <1>4, <1>5, <1>6, <1>7, StepInPlace DEF InPlace, Untouched

\* A call that meets something it may not use.
LEMMA CallKeeps ==
  ASSUME TypeOK, Places, oops = Fine, NEW d \in Drivers, Call(d)
  PROVE  IInv'
<1>1. PICK kind \in (IF d = "npca110" THEN npca110_Misused ELSE ntp8230_Misused) : Oops(d, kind)
  BY DEF Call
<1>2. UNCHANGED <<fex, moduleVars, probeVars, workVars, file, asleep>>
  BY DEF Call
<1>3. UNCHANGED <<fex, phase, ret, held, devptr, classptr, client, wq, pending, running, file, asleep>>
  BY <1>2 DEF moduleVars, probeVars, workVars
<1>4. FileHolds(d) /\ QueueHolds(d)
  BY DEF Places, InPlace
<1>5. \/ kind = "freed" /\ file[d] = "stale"
      \/ kind = "semaphore" /\ file[d] = "open" /\ "sem" \notin held[d]
      \/ kind = "client" /\ file[d] = "open" /\ ~client[d]
  <2>1. file[d] \in {"closed", "open", "stale"}
    BY DEF TypeOK
  <2>2. CASE d = "npca110"
    <3>1. kind \in npca110_Misused
      BY <1>1, <2>2
    <3>2. CASE file[d] = "closed"
      BY <2>2, <3>1, <3>2 DEF npca110_Misused
    <3>3. CASE file[d] = "stale"
      BY <2>2, <3>1, <3>3 DEF npca110_Misused
    <3>4. CASE file[d] = "open"
      BY <2>2, <3>1, <3>4 DEF npca110_Misused
    <3> QED
      BY <2>1, <3>2, <3>3, <3>4
  <2>3. CASE d = "ntp8230"
    <3>1. kind \in ntp8230_Misused
      BY <1>1, <2>3
    <3>2. CASE file[d] = "closed"
      BY <2>3, <3>1, <3>2 DEF ntp8230_Misused
    <3>3. CASE file[d] = "stale"
      BY <2>3, <3>1, <3>3 DEF ntp8230_Misused
    <3>4. CASE file[d] = "open"
      BY <2>3, <3>1, <3>4 DEF ntp8230_Misused
    <3> QED
      BY <2>1, <3>2, <3>3, <3>4
  <2> QED
    BY <2>2, <2>3 DEF Drivers
<1>6. Explains(d, kind)'
  <2>1. "sem" \notin held[d] /\ file[d] = "open" => phase[d] = "sem"
    <3>1. SUFFICES ASSUME phase[d] \in Resources, "node" \in held[d], "sem" \notin held[d]
                   PROVE  phase[d] = "sem"
      BY <1>4 DEF FileHolds
    <3>2. held[d] = Before[phase[d]]
      BY <3>1 DEF Places, InPlace, HeldInPhase
    <3>3. phase[d] \in {"sem", "driver"}
      BY <3>1, <3>2, BeforeFacts
    <3> QED
      BY <3>1, <3>2, <3>3, BeforeIs
  <2> QED
    BY <1>3, <1>4, <1>5, <2>1 DEF Explains, QueueHolds
<1>7. InvalidUsesExplained'
  BY <1>1, <1>6, UseExplained
<1>8. oops' \in [kind : {"none", "null", "freed", "semaphore", "client", "release"},
                 driver : Drivers \cup {"none"}]
  BY <1>1, <1>5 DEF Oops
<1>9. TypeOK'
  BY <1>3, <1>8 DEF TypeOK
<1>10. Places'
  BY <1>2, <1>3, <1>4, WorkInPlace DEF QueueHolds
<1> QED
  BY <1>7, <1>9, <1>10 DEF IInv

LEMMA PowerKeeps ==
  ASSUME TypeOK, Places, Sleep \/ Wake
  PROVE  TypeOK' /\ Places'
<1>1. /\ UNCHANGED <<fex, phase, ret, held, devptr, classptr, client, wq, running, file, oops>>
  BY DEF Sleep, Wake, moduleVars, probeVars
<1>2. asleep' \in BOOLEAN
  <2>1. asleep' = TRUE \/ asleep' = FALSE
    BY DEF Sleep, Wake
  <2> QED
    BY <2>1
<1>3. /\ pending' \in [Drivers -> {"none", "init", "sure", "suspend", "resume"}]
      /\ \A c \in Drivers : pending'[c] \in Works[c] \cup {"none"}
      /\ \A c \in Drivers : pending'[c] # "none" => wq[c]
  <2>1. CASE Sleep
    <3>1. pending' = [d \in Drivers |-> IF d = "ntp8230" /\ wq[d] THEN "suspend" ELSE "none"]
      BY <2>1 DEF Sleep
    <3> QED
      BY <3>1 DEF Works, Ntp8230Works, Drivers
  <2>2. CASE Wake
    <3>1. pending' = [d \in Drivers |-> IF wq[d] THEN Restore[d] ELSE "none"]
      BY <2>2 DEF Wake
    <3>2. \A c \in Drivers : Restore[c] \in {"sure", "resume"} /\ Restore[c] \in Works[c]
      BY DEF Restore, Works, Npca110Works, Ntp8230Works
    <3> QED
      BY <3>1, <3>2
  <2> QED
    BY <2>1, <2>2
<1>4. TypeOK'
  <2>1. \A c \in Drivers : {pending'[c], running'[c]} \subseteq Works[c] \cup {"none"}
    BY <1>1, <1>3 DEF TypeOK
  <2> QED
    BY <1>1, <1>2, <1>3, <2>1 DEF TypeOK
<1>5. ASSUME NEW c \in Drivers
      PROVE  InPlace(c)'
  <2>1. InPlace(c)
    BY DEF Places
  <2>2. HeldInPhase(c)' /\ PointersFollow(c)' /\ FileHolds(c)'
    BY <1>1, <2>1 DEF InPlace, HeldInPhase, PointersFollow, FileHolds, Configured
  <2>3. QueueHolds(c)'
    BY <1>1, <1>3, <2>1 DEF InPlace, QueueHolds
  <2> QED
    BY <2>2, <2>3 DEF InPlace
<1> QED
  BY <1>1, <1>4, <1>5 DEF Places, LoadOrder

-----------------------------------------------------------------------------
(***************************************************************************)
(* The invariant.                                                          *)
(***************************************************************************)
LEMMA InitIInv == Init => IInv
<1> SUFFICES ASSUME Init PROVE IInv
  OBVIOUS
<1>1. /\ phase = [d \in Drivers |-> "off"] /\ ret = [d \in Drivers |-> -1]
      /\ held = [d \in Drivers |-> {}]
      /\ devptr = [d \in Drivers |-> "null"] /\ classptr = [d \in Drivers |-> "null"]
      /\ pending = [d \in Drivers |-> "none"] /\ running = [d \in Drivers |-> "none"]
      /\ file = [d \in Drivers |-> "closed"]
  BY Zenon DEF Init
<1>2. client = [d \in Drivers |-> FALSE] /\ wq = [d \in Drivers |-> FALSE]
  BY Zenon DEF Init
<1>3. asleep = FALSE /\ oops = Fine
  BY Zenon DEF Init
<1>4. fex \subseteq AllPins
  BY Zenon DEF Init
<1>5. TypeOK
  <2>1. client \in [Drivers -> BOOLEAN] /\ wq \in [Drivers -> BOOLEAN] /\ asleep \in BOOLEAN
    BY <1>2, <1>3, Zenon
  <2>2. /\ phase \in [Drivers -> Phases] /\ ret \in [Drivers -> {-1, 0}]
        /\ held \in [Drivers -> SUBSET Resources]
        /\ devptr \in [Drivers -> {"null", "live", "freed"}]
        /\ classptr \in [Drivers -> {"null", "live", "freed", "error"}]
    BY <1>1 DEF Phases
  <2>3. /\ pending \in [Drivers -> {"none", "init", "sure", "suspend", "resume"}]
        /\ running \in [Drivers -> {"none", "init", "sure", "suspend", "resume"}]
        /\ file \in [Drivers -> {"closed", "open", "stale"}]
        /\ \A d \in Drivers : {pending[d], running[d]} \subseteq Works[d] \cup {"none"}
    BY <1>1
  <2>4. oops \in [kind : {"none", "null", "freed", "semaphore", "client", "release"},
                   driver : Drivers \cup {"none"}]
    BY <1>3 DEF Fine
  <2> QED
    BY <1>4, <2>1, <2>2, <2>3, <2>4 DEF TypeOK
<1>6. ASSUME NEW d \in Drivers
      PROVE  InPlace(d)
  <2>1. /\ phase[d] = "off" /\ held[d] = {} /\ devptr[d] = "null" /\ classptr[d] = "null"
        /\ pending[d] = "none" /\ running[d] = "none" /\ file[d] = "closed"
    BY <1>1
  <2>2. ~wq[d]
    BY <1>2
  <2> QED
    BY <2>1, <2>2, PlacesApart DEF InPlace, HeldInPhase, PointersFollow, FileHolds, QueueHolds
<1>7. LoadOrder
  BY <1>1 DEF LoadOrder, Drivers
<1>8. InvalidUsesExplained
  BY <1>3 DEF Fine, InvalidUsesExplained
<1> QED
  BY <1>5, <1>6, <1>7, <1>8 DEF IInv, Places

LEMMA NextIInv == IInv /\ [Next]_vars => IInv'
<1> SUFFICES ASSUME IInv, [Next]_vars
             PROVE  IInv'
  OBVIOUS
<1> USE DEF IInv
<1>1. CASE UNCHANGED vars
  <2>1. UNCHANGED <<fex, phase, ret, held, devptr, classptr, client, wq, pending, running,
                    file, asleep, oops>>
    BY <1>1 DEF vars, moduleVars, probeVars, workVars
  <2>2. TypeOK'
    BY <2>1 DEF TypeOK
  <2>3. Places'
    BY <2>1 DEF Places, LoadOrder, InPlace, HeldInPhase, PointersFollow, FileHolds, QueueHolds,
                Configured
  <2>4. InvalidUsesExplained'
    BY <2>1 DEF InvalidUsesExplained, FailedQuietly, Configured
  <2> QED
    BY <2>2, <2>3, <2>4
<1>2. CASE Next
  <2>1. oops = Fine
    BY <1>2 DEF Next
  <2>2. ASSUME TypeOK', Places', UNCHANGED oops
        PROVE  IInv'
    BY <2>1, <2>2, NothingToExplain
  <2>3. ASSUME NEW d \in Drivers, Load(d) \/ InitStep(d)
        PROVE  IInv'
    <3>1. CASE Undo(d)
      BY <2>1, <2>2, <3>1, UndoKeeps
    <3>2. CASE ~Undo(d)
      <4>1. UNCHANGED oops
        BY <2>3, <3>2 DEF Load, InitStep, Acquire, AcquireFails, Undone
      <4>2. TypeOK' /\ Places'
        BY <2>3, <3>2, LoadKeeps, AcquireKeeps, FailureKeeps, UndoneKeeps DEF InitStep
      <4> QED
        BY <2>2, <4>1, <4>2
    <3> QED
      BY <3>1, <3>2
  <2>4. ASSUME NEW d \in Drivers, ProbeStep(d)
        PROVE  IInv'
    <3>1. UNCHANGED oops
      BY <2>4 DEF ProbeStep, NoChip, NoQueue, Probe, Registered
    <3> QED
      BY <2>2, <2>4, <3>1, ProbeKeeps
  <2>5. ASSUME NEW d \in Drivers, EnterExit(d) \/ ExitRegion(d)
        PROVE  IInv'
    <3>1. UNCHANGED oops
      BY <2>5 DEF EnterExit, ExitRegion
    <3> QED
      BY <2>2, <2>5, <3>1, EnterExitKeeps, ExitRegionKeeps
  <2>6. ASSUME NEW d \in Drivers, ExitClass(d) \/ ExitMemory(d) \/ ExitDriver(d)
        PROVE  IInv'
    BY <2>1, <2>6, ExitClassKeeps, ExitMemoryKeeps, ExitDriverKeeps
  <2>7. ASSUME NEW d \in Drivers, RemoveStep(d)
        PROVE  IInv'
    <3>1. UNCHANGED oops
      BY <2>7 DEF RemoveStep, Cancel, DestroyQueue
    <3> QED
      BY <2>2, <2>7, <3>1, CancelKeeps, DestroyQueueKeeps DEF RemoveStep
  <2>8. ASSUME NEW d \in Drivers, Worker(d)
        PROVE  IInv'
    BY <2>1, <2>8, StartWorkKeeps, EndWorkKeeps DEF Worker
  <2>9. ASSUME NEW d \in Drivers, User(d)
        PROVE  IInv'
    <3>1. CASE Open(d) \/ Close(d)
      <4>1. UNCHANGED oops
        BY <3>1 DEF Open, Close
      <4> QED
        BY <2>2, <3>1, <4>1, FileKeeps
    <3>2. CASE Call(d)
      BY <2>1, <3>2, CallKeeps
    <3> QED
      BY <2>9, <3>1, <3>2 DEF User
  <2>10. CASE Sleep \/ Wake
    <3>1. UNCHANGED oops
      BY <2>10 DEF Sleep, Wake
    <3> QED
      BY <2>2, <2>10, <3>1, PowerKeeps
  <2>11. "npca110" \in Drivers /\ "ntp8230" \in Drivers
    BY DEF Drivers
  <2>12. CASE npca110_i2c_init \/ npca110_probe \/ npca110_i2c_exit \/ npca110_i2c_remove
    BY <2>3, <2>4, <2>5, <2>6, <2>7, <2>11, <2>12
    DEF npca110_i2c_init, npca110_probe, npca110_i2c_exit, npca110_i2c_remove, ExitStep
  <2>13. CASE ntp8230_i2c_init \/ ntp8230_probe \/ ntp8230_i2c_exit \/ ntp8230_i2c_remove
    BY <2>3, <2>4, <2>5, <2>6, <2>7, <2>11, <2>13
    DEF ntp8230_i2c_init, ntp8230_probe, ntp8230_i2c_exit, ntp8230_i2c_remove, ExitStep
  <2>14. CASE \E d \in Drivers : Worker(d) \/ User(d)
    BY <2>8, <2>9, <2>14
  <2> QED
    BY <1>2, <2>10, <2>12, <2>13, <2>14 DEF Next
<1> QED
  BY <1>1, <1>2

\* Every variable keeps to its kind; the work of a driver is its own.
THEOREM TypeCorrect == Spec => []TypeOK
<1>1. IInv => TypeOK
  BY DEF IInv
<1> QED
  BY InitIInv, NextIInv, <1>1, PTL DEF Spec

\* Every failure of init jumps to the label that fits it, and the labels fall
\* through to give back all that was taken, each finding what it releases: a
\* module that goes holds nothing, one that stays holds all or nothing, and the
\* pointers to the memory and the class say which of them is there.
THEOREM LabelsReleaseAllOrNothing == Spec => []AllOrNothing
<1>1. IInv => AllOrNothing
  <2> SUFFICES ASSUME IInv, NEW d \in Drivers
               PROVE  /\ phase[d] \in {"off", "remove"} => held[d] = {}
                      /\ phase[d] = "loaded" => held[d] \in {{}, Resources}
                      /\ devptr[d] = "live" <=> "memory" \in held[d]
                      /\ classptr[d] = "live" <=> "class" \in held[d]
    BY DEF AllOrNothing
  <2> QED
    BY DEF IInv, Places, InPlace, HeldInPhase, PointersFollow
<1> QED
  BY InitIInv, NextIInv, <1>1, PTL DEF Spec

\* remove leaves no work behind that could run in code that is gone, whatever
\* was queued, running or restored when the module was unloaded.
THEOREM WorkHasItsQueue == Spec => []WorkNeedsQueue
<1>1. IInv => WorkNeedsQueue
  BY DEF IInv, Places, InPlace, QueueHolds, WorkNeedsQueue
<1> QED
  BY InitIInv, NextIInv, <1>1, PTL DEF Spec

\* Whatever fails, whoever opens, sleeps or unloads meanwhile: the drivers make
\* no other invalid use of memory, a pointer, a semaphore or a client than the
\* ones that are explained.
THEOREM UsesAreExplained == Spec => []InvalidUsesExplained
<1>1. IInv => InvalidUsesExplained
  BY DEF IInv
<1> QED
  BY InitIInv, NextIInv, <1>1, PTL DEF Spec

=============================================================================
