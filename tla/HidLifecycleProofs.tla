------------------------- MODULE HidLifecycleProofs -------------------------
(***************************************************************************)
(* Theorems about HidLifecycle, for any minors, objects, tasks and times:  *)
(* when whatever a client thread waits for ends before usbh_hid_stop loses *)
(* patience, no thread works on an object the stack has freed, a minor has *)
(* one thread, an attach finds its minor at rest, and every joystick has a *)
(* slot of its own.                                                        *)
(***************************************************************************)
EXTENDS HidLifecycle, FiniteSetTheorems, WellFoundedInduction, TLAPS

\* HID_URB_MS and a control transfer are shorter than the wait of usbh_hid_stop
\* ("past a control transfer's 500 ms"), and so is the handling of a report.
Timely == Urb < StopWait /\ Ctl < StopWait /\ Parse < StopWait

Types ==
  /\ hub \in [pc : {"idle", "run", "stop"}, class : Classes \cup {None}, left : Nat]
  /\ alive \subseteq Classes
  /\ minor \in [Classes -> Minors]
  /\ class \in [Minors -> Classes \cup {None}]
  /\ state \in [Minors -> {"none", "running", "failed"}]
  /\ stop \in [Minors -> BOOLEAN]
  /\ task_handle \in [Minors -> Threads \cup {None}]
  /\ pc \in [Threads -> Places] /\ hid \in [Threads -> Minors]
  /\ using \in [Threads -> Classes \cup {None}] /\ left \in [Threads -> Nat]

\* Live objects and minors at work go together, but for the one about to start.
Starting == hub.pc = "run" => hub.class \in alive /\ class[minor[hub.class]] = None
Objects ==
  /\ \A c \in alive : class[minor[c]] = c \/ (hub.pc = "run" /\ hub.class = c)
  /\ \A m \in Minors : class[m] # None => class[m] \in alive /\ minor[class[m]] = m
  /\ \A m \in Minors : state[m] = "none" <=> class[m] = None

\* A live thread is the one that its minor names, and its minor is at work.
Named ==
  \A t \in Threads : pc[t] # "gone" => task_handle[hid[t]] = t /\ class[hid[t]] # None
InUse == \A t \in Threads : pc[t] \in {"urb", "halt"} => using[t] = class[hid[t]]

\* While usbh_hid_stop waits, the thread's own wait ends before it.
InTime ==
  /\ \A t \in Threads : left[t] < StopWait
  /\ hub.pc = "stop" =>
       LET m == minor[hub.class] IN
       /\ hub.class \in alive /\ class[m] = hub.class /\ stop[m]
       /\ \A t \in Threads : pc[t] # "gone" /\ hid[t] = m =>
            hub.left > 0 /\ (pc[t] \in Waits => left[t] < hub.left)

IInv == Types /\ Starting /\ Objects /\ Named /\ InUse /\ InTime

-----------------------------------------------------------------------------
(* A step of a client thread *)

\* What such a step does, whatever it is: the thread leaves for place w with x
\* units of time, and a thread that has been told to stop waits for nothing more.
Leaves(t, w, x) ==
  /\ pc' = [pc EXCEPT ![t] = w] /\ left' = [left EXCEPT ![t] = x]
  /\ x < StopWait
  /\ stop[hid[t]] => w \notin Waits
  /\ \/ /\ w = "gone"
        /\ task_handle' = [task_handle EXCEPT ![hid[t]] = None]
        /\ hid' = [hid EXCEPT ![t] = AnyMinor] /\ using' = [using EXCEPT ![t] = None]
     \/ /\ w # "gone"
        /\ UNCHANGED <<task_handle, hid>>
        /\ using' = using \/ using' = [using EXCEPT ![t] = class[hid[t]]]
        /\ w \in {"urb", "halt"} => using'[t] = class[hid[t]]

LEMMA ThreadLeaves ==
  ASSUME IInv, Timely, NEW t \in Threads, Thread(t)
  PROVE  /\ UNCHANGED <<hub, alive, minor, class, state, stop>>
         /\ pc[t] # "gone"
         /\ \E w \in Places, x \in Nat : Leaves(t, w, x)
<1>0. /\ Urb \in Nat /\ Ctl \in Nat /\ Parse \in Nat /\ StopWait \in Nat
      /\ Urb < StopWait /\ Ctl < StopWait /\ Parse < StopWait /\ 0 < StopWait
  BY HidAssumption DEF Timely
<1>1. CASE Top(t)
  <2>1. UNCHANGED <<hub, alive, minor, class, state, stop>> /\ pc[t] # "gone"
    BY <1>1 DEF Top, At, stack, info
  <2>2. CASE stop[hid[t]] \/ class[hid[t]] \notin connected
    <3>1. Leaves(t, "exit", 0)
      BY <1>0, <1>1, <2>2 DEF Top, Goto, Wait, Leaves, Waits
    <3> QED BY <2>1, <3>1 DEF Places
  <2>3. CASE ~(stop[hid[t]] \/ class[hid[t]] \notin connected)
    <3>1. using'[t] = class[hid[t]]
      BY <1>1, <2>3 DEF Top, IInv, Types
    <3>2. Leaves(t, "urb", Urb)
      BY <1>0, <1>1, <2>3, <3>1 DEF Top, Wait, Leaves
    <3> QED BY <1>0, <2>1, <3>2 DEF Places
  <2> QED BY <2>2, <2>3
<1>2. CASE UrbReport(t)
  <2>1. UNCHANGED <<hub, alive, minor, class, state, stop>> /\ pc[t] # "gone"
    BY <1>2 DEF UrbReport, At, stack, info
  <2>2. Leaves(t, "exit", 0) \/ Leaves(t, "parse", Parse)
    BY <1>0, <1>2 DEF UrbReport, Goto, Wait, Leaves, Waits
  <2> QED BY <1>0, <2>1, <2>2 DEF Places
<1>3. CASE UrbTimeout(t)
  <2>1. UNCHANGED <<hub, alive, minor, class, state, stop>> /\ pc[t] # "gone"
    BY <1>3 DEF UrbTimeout, At, stack, info
  <2>2. Leaves(t, "exit", 0) \/ Leaves(t, "top", 0)
    BY <1>0, <1>3 DEF UrbTimeout, Goto, Wait, Leaves, Waits
  <2> QED BY <2>1, <2>2 DEF Places
<1>4. CASE UrbGone(t)
  <2>1. UNCHANGED <<hub, alive, minor, class, state, stop>> /\ pc[t] # "gone"
    BY <1>4 DEF UrbGone, At, stack, info
  <2>2. Leaves(t, "exit", 0)
    BY <1>0, <1>4 DEF UrbGone, Goto, Wait, Leaves, Waits
  <2> QED BY <2>1, <2>2 DEF Places
<1>5. CASE UrbError(t)
  <2>1. UNCHANGED <<hub, alive, minor, class, state, stop>> /\ pc[t] # "gone"
    BY <1>5 DEF UrbError, At, stack, info
  <2>2. using' = using /\ using'[t] = class[hid[t]]
    BY <1>5 DEF UrbError, At, IInv, InUse
  <2>3. Leaves(t, "exit", 0) \/ Leaves(t, "top", 0) \/ Leaves(t, "halt", Ctl)
    BY <1>0, <1>5, <2>2 DEF UrbError, Goto, Wait, Leaves, Waits
  <2> QED BY <1>0, <2>1, <2>3 DEF Places
<1>6. CASE HaltCleared(t)
  <2>1. UNCHANGED <<hub, alive, minor, class, state, stop>> /\ pc[t] # "gone"
    BY <1>6 DEF HaltCleared, At, stack, info
  <2>2. Leaves(t, "top", 0)
    BY <1>0, <1>6 DEF HaltCleared, Goto, Wait, Leaves, Waits
  <2> QED BY <2>1, <2>2 DEF Places
<1>7. CASE Parsed(t)
  <2>1. UNCHANGED <<hub, alive, minor, class, state, stop>> /\ pc[t] # "gone"
    BY <1>7 DEF Parsed, At, stack, info
  <2>2. Leaves(t, "top", 0)
    BY <1>0, <1>7 DEF Parsed, Goto, Wait, Leaves, Waits
  <2> QED BY <2>1, <2>2 DEF Places
<1>8. CASE Exit(t)
  <2>1. UNCHANGED <<hub, alive, minor, class, state, stop>> /\ pc[t] # "gone"
    BY <1>8 DEF Exit, At, stack, info
  <2>2. Leaves(t, "gone", 0)
    BY <1>0, <1>8 DEF Exit, Goto, Wait, Leaves, Waits
  <2> QED BY <2>1, <2>2 DEF Places
<1> QED BY <1>1, <1>2, <1>3, <1>4, <1>5, <1>6, <1>7, <1>8 DEF Thread

LEMMA Constant ==
  Timely => /\ StopWait \in Nat /\ RunWait \in Nat /\ 0 < StopWait
            /\ AnyMinor \in Minors
            /\ None \notin Minors \cup Classes \cup Threads
<1>1. Minors # {} /\ StopWait \in Nat /\ RunWait \in Nat /\ Urb \in Nat
      /\ None \notin Minors \cup Classes \cup Threads
  BY HidAssumption
<1> QED BY <1>1 DEF Timely, AnyMinor

\* A thread that leaves a place harms nothing: the minor it forgets is its own.
LEMMA LeavingKeepsIInv ==
  ASSUME IInv, Timely, NEW t \in Threads, NEW w \in Places, NEW x \in Nat,
         pc[t] # "gone", Leaves(t, w, x),
         UNCHANGED <<hub, alive, minor, class, state, stop>>
  PROVE  IInv'
<1>0. StopWait \in Nat /\ 0 < StopWait /\ AnyMinor \in Minors
      /\ None \notin Minors \cup Classes \cup Threads
  BY Constant
<1>1. Types
  BY DEF IInv
<1>2. /\ hid[t] \in Minors /\ task_handle[hid[t]] = t
      /\ class[hid[t]] \in Classes /\ class[hid[t]] # None
  BY <1>1 DEF IInv, Named, Types
<1>3. /\ pc' = [pc EXCEPT ![t] = w] /\ left' = [left EXCEPT ![t] = x]
      /\ \A u \in Threads \ {t} : hid'[u] = hid[u] /\ using'[u] = using[u]
                                  /\ pc'[u] = pc[u] /\ left'[u] = left[u]
      /\ pc'[t] = w /\ left'[t] = x
  BY <1>1 DEF Leaves, Types
<1>4. \A m \in Minors \ {hid[t]} : task_handle'[m] = task_handle[m]
  BY <1>1 DEF Leaves, Types
<1>5. Types'
  BY <1>0, <1>1, <1>2, <1>3 DEF Types, Leaves
<1>6. Starting' /\ Objects'
  BY DEF IInv, Starting, Objects
<1>7. Named'
  <2> SUFFICES ASSUME NEW u \in Threads, pc'[u] # "gone"
               PROVE  task_handle'[hid'[u]] = u /\ class[hid'[u]] # None
    BY DEF Named
  <2>1. CASE u = t
    <3>1. w # "gone" /\ UNCHANGED <<task_handle, hid>>
      BY <1>3, <2>1 DEF Leaves
    <3> QED BY <1>2, <2>1, <3>1
  <2>2. CASE u # t
    <3>1. pc[u] # "gone" /\ hid'[u] = hid[u] /\ hid[u] \in Minors
      BY <1>1, <1>3, <2>2 DEF Types
    <3>2. task_handle[hid[u]] = u /\ class[hid[u]] # None
      BY <3>1 DEF IInv, Named
    <3>3. hid[u] # hid[t]
      BY <1>2, <2>2, <3>2
    <3> QED BY <1>4, <3>1, <3>2, <3>3
  <2> QED BY <2>1, <2>2
<1>8. InUse'
  <2> SUFFICES ASSUME NEW u \in Threads, pc'[u] \in {"urb", "halt"}
               PROVE  using'[u] = class[hid'[u]]
    BY DEF InUse
  <2>1. CASE u = t
    BY <1>3, <2>1 DEF Leaves
  <2>2. CASE u # t
    BY <1>3, <2>2 DEF IInv, InUse
  <2> QED BY <2>1, <2>2
<1>9. InTime'
  <2>1. \A u \in Threads : left'[u] < StopWait
    BY <1>3 DEF IInv, InTime, Leaves
  <2> SUFFICES ASSUME hub.pc = "stop",
                      NEW u \in Threads, pc'[u] # "gone", hid'[u] = minor[hub.class]
               PROVE  hub.left > 0 /\ (pc'[u] \in Waits => left'[u] < hub.left)
    BY <2>1 DEF IInv, InTime
  <2>2. CASE u = t
    <3>1. w # "gone" /\ hid[t] = minor[hub.class]
      BY <1>3, <2>2 DEF Leaves
    <3>2. stop[hid[t]] /\ hub.left > 0
      BY <3>1 DEF IInv, InTime
    <3> QED BY <1>3, <2>2, <3>2 DEF Leaves
  <2>3. CASE u # t
    BY <1>3, <2>3 DEF IInv, InTime
  <2> QED BY <2>2, <2>3
<1> QED BY <1>5, <1>6, <1>7, <1>8, <1>9 DEF IInv

-----------------------------------------------------------------------------
(* The steps of the hub thread and of time *)

LEMMA InitIInv == Timely /\ Init => IInv
<1> SUFFICES ASSUME Timely, Init PROVE IInv
  OBVIOUS
<1>0. StopWait \in Nat /\ 0 < StopWait /\ AnyMinor \in Minors
  BY Constant
<1>1. Types
  BY <1>0 DEF Init, Idle, Types, Places
<1>2. Starting /\ Objects
  BY DEF Init, Idle, Starting, Objects
<1>3. Named /\ InUse /\ InTime
  BY <1>0 DEF Init, Idle, Named, InUse, InTime
<1> QED BY <1>1, <1>2, <1>3 DEF IInv

\* The new object gets a minor that no live object has, so its place is free.
LEMMA AttachIInv ==
  ASSUME IInv, Timely, NEW c \in Classes, NEW m \in Minors, NEW k \in Kinds \cup {None},
         Attach(c, m, k)
  PROVE  IInv'
<1>0. RunWait \in Nat /\ None \notin Classes
  BY Constant
<1>1. Types /\ hub.pc = "idle"
  BY DEF IInv, Attach, Idle
<1>2. /\ c \notin alive /\ \A d \in alive : minor[d] # m
      /\ alive' = alive \cup {c} /\ minor' = [minor EXCEPT ![c] = m]
      /\ hub' = [pc |-> "run", class |-> c, left |-> IF state[m] = "none" THEN 0 ELSE RunWait]
  BY DEF Attach, Hub
<1>3. UNCHANGED <<class, state, stop, task_handle, pc, hid, using, left>>
  BY DEF Attach, info, client
<1>4. Types'
  BY <1>0, <1>1, <1>2, <1>3 DEF Types
<1>5. class[m] = None
  BY <1>1, <1>2 DEF IInv, Objects
<1>6. Starting'
  BY <1>1, <1>2, <1>3, <1>5 DEF Types, Starting
<1>7. Objects'
  <2>1. \A d \in alive : d # c /\ minor'[d] = minor[d] /\ class[minor[d]] = d
    BY <1>1, <1>2 DEF IInv, Objects, Types
  <2>2. \A d \in alive' : class'[minor'[d]] = d \/ (hub'.pc = "run" /\ hub'.class = d)
    BY <1>2, <1>3, <2>1
  <2>3. \A n \in Minors : class[n] # None => class[n] \in alive' /\ minor'[class[n]] = n
    BY <1>2, <2>1 DEF IInv, Objects
  <2> QED BY <1>3, <2>2, <2>3 DEF IInv, Objects
<1>8. Named' /\ InUse'
  BY <1>3 DEF IInv, Named, InUse
<1>9. InTime'
  BY <1>2, <1>3 DEF IInv, InTime
<1> QED BY <1>4, <1>6, <1>7, <1>8, <1>9 DEF IInv

\* The minor is free, so no thread is at work on it.
LEMMA RunIInv ==
  ASSUME IInv, Timely, NEW t \in Threads, Run(t)
  PROVE  IInv'
<1> DEFINE c == hub.class  m == minor[c]
<1>0. None \notin Minors \cup Classes \cup Threads
  BY Constant
<1>1. Types /\ hub.pc = "run" /\ pc[t] = "gone"
  BY DEF IInv, Run
<1>2. c \in alive /\ c \in Classes /\ m \in Minors /\ class[m] = None
  BY <1>1 DEF IInv, Starting, Types
<1>3. /\ class' = [class EXCEPT ![m] = c] /\ hub' = Idle
      /\ UNCHANGED <<alive, minor, using, left>>
      /\ stop' = [stop EXCEPT ![m] = FALSE]
  BY DEF Run
<1>4. \/ /\ state' = [state EXCEPT ![m] = "failed"]
         /\ UNCHANGED <<task_handle, pc, hid>>
      \/ /\ state' = [state EXCEPT ![m] = "running"]
         /\ task_handle' = [task_handle EXCEPT ![m] = t]
         /\ pc' = [pc EXCEPT ![t] = "top"] /\ hid' = [hid EXCEPT ![t] = m]
  BY DEF Run
<1>5. Types'
  BY <1>1, <1>2, <1>3, <1>4 DEF Types, Idle, Places
<1>6. Starting'
  BY <1>3 DEF Starting, Idle
<1>7. Objects'
  <2>1. \A d \in alive \ {c} : class[minor[d]] = d /\ minor[d] # m
    BY <1>0, <1>1, <1>2 DEF IInv, Objects, Types
  <2>2. \A d \in alive : class'[minor[d]] = d
    BY <1>1, <1>2, <1>3, <2>1 DEF Types
  <2>3. \A n \in Minors : class'[n] # None => class'[n] \in alive /\ minor[class'[n]] = n
    BY <1>1, <1>2, <1>3 DEF IInv, Objects, Types
  <2>4. \A n \in Minors : state'[n] = "none" <=> class'[n] = None
    BY <1>0, <1>1, <1>2, <1>3, <1>4 DEF IInv, Objects, Types
  <2> QED BY <1>3, <2>2, <2>3, <2>4 DEF Objects
<1>8. \A u \in Threads : pc[u] # "gone" => u # t /\ hid[u] \in Minors \ {m}
  BY <1>1, <1>2 DEF IInv, Named, Types
<1>9. \A u \in Threads : pc[u] # "gone" =>
        pc'[u] = pc[u] /\ hid'[u] = hid[u] /\ task_handle'[hid[u]] = task_handle[hid[u]]
        /\ class'[hid[u]] = class[hid[u]]
  BY <1>1, <1>3, <1>4, <1>8 DEF Types
<1>10. \A u \in Threads : pc[u] = "gone" /\ pc'[u] # "gone" =>
         u = t /\ pc'[u] = "top" /\ hid'[u] = m /\ task_handle'[m] = t /\ class'[m] = c
  BY <1>1, <1>2, <1>3, <1>4 DEF Types
<1>11. Named'
  BY <1>0, <1>2, <1>9, <1>10 DEF IInv, Named
<1>12. InUse'
  <2> SUFFICES ASSUME NEW u \in Threads, pc'[u] \in {"urb", "halt"}
               PROVE  using'[u] = class'[hid'[u]]
    BY DEF InUse
  <2>1. pc[u] # "gone"
    BY <1>10
  <2> QED BY <1>3, <1>9, <2>1 DEF IInv, InUse
<1>13. InTime'
  BY <1>3 DEF IInv, InTime, Idle
<1> QED BY <1>5, <1>6, <1>7, <1>11, <1>12, <1>13 DEF IInv

\* The thread's own wait is shorter than the one that begins.
LEMMA DetachIInv ==
  ASSUME IInv, Timely, NEW c \in Classes, Detach(c)
  PROVE  IInv'
<1>0. StopWait \in Nat /\ 0 < StopWait
  BY Constant
<1>1. Types /\ hub.pc = "idle" /\ c \in alive
  BY DEF IInv, Detach, Idle
<1>2. /\ stop' = [stop EXCEPT ![minor[c]] = TRUE]
      /\ hub' = [pc |-> "stop", class |-> c, left |-> StopWait]
      /\ UNCHANGED <<alive, minor, class, state, task_handle, pc, hid, using, left>>
  BY DEF Detach, Hub, client
<1>3. class[minor[c]] = c /\ minor[c] \in Minors
  BY <1>1 DEF IInv, Objects, Types
<1>4. Types'
  BY <1>0, <1>1, <1>2 DEF Types
<1>5. Starting' /\ Objects'
  BY <1>1, <1>2 DEF IInv, Starting, Objects
<1>6. Named' /\ InUse'
  BY <1>2 DEF IInv, Named, InUse
<1>7. stop'[minor[c]]
  BY <1>1, <1>2, <1>3 DEF Types
<1>8. InTime'
  BY <1>0, <1>1, <1>2, <1>3, <1>7 DEF IInv, InTime
<1> QED BY <1>4, <1>5, <1>6, <1>8 DEF IInv

\* When the wait is over no thread is left at the minor.
LEMMA StoppedIInv ==
  ASSUME IInv, Timely, Stopped
  PROVE  IInv'
<1> DEFINE c == hub.class  m == minor[c]
<1>0. None \notin Minors \cup Classes \cup Threads /\ AnyMinor \in Minors
  BY Constant
<1>1. Types /\ hub.pc = "stop" /\ Waited(m)
  BY DEF IInv, Stopped
<1>2. c \in alive /\ c \in Classes /\ m \in Minors /\ class[m] = c
  BY <1>1 DEF IInv, InTime, Types
<1>3. /\ class' = [class EXCEPT ![m] = None] /\ hub' = Idle
      /\ state' = [state EXCEPT ![m] = "none"]
      /\ alive' = alive \ {c} /\ minor' = [minor EXCEPT ![c] = AnyMinor]
      /\ UNCHANGED <<stop, task_handle, pc, hid, using, left>>
  BY DEF Stopped
<1>4. \A u \in Threads : pc[u] # "gone" => hid[u] \in Minors \ {m}
  <2> SUFFICES ASSUME NEW u \in Threads, pc[u] # "gone", hid[u] = m PROVE FALSE
    BY <1>1 DEF Types
  <2>1. task_handle[m] = u /\ hub.left > 0
    BY <1>1 DEF IInv, Named, InTime
  <2>2. hub.left \in Nat
    BY <1>1 DEF Types
  <2> QED BY <1>0, <1>1, <2>1, <2>2 DEF Waited
<1>5. Types'
  BY <1>0, <1>1, <1>2, <1>3 DEF Types, Idle
<1>6. Starting'
  BY <1>3 DEF Starting, Idle
<1>7. Objects'
  <2>1. \A d \in alive' : d \in Classes /\ minor'[d] = minor[d] /\ class[minor[d]] = d /\ minor[d] # m
    BY <1>1, <1>2, <1>3 DEF IInv, Objects, Types
  <2>2. \A d \in alive' : class'[minor'[d]] = d
    BY <1>1, <1>3, <2>1 DEF Types
  <2>3. \A n \in Minors : class'[n] # None => n # m /\ class'[n] = class[n]
    BY <1>1, <1>2, <1>3 DEF Types
  <2>4. \A n \in Minors : class'[n] # None => class'[n] \in alive' /\ minor'[class'[n]] = n
    <3> SUFFICES ASSUME NEW n \in Minors, class'[n] # None
                 PROVE  class[n] \in alive' /\ minor'[class[n]] = n
      BY <2>3
    <3>1. class[n] \in alive /\ minor[class[n]] = n /\ n # m
      BY <2>3 DEF IInv, Objects
    <3>2. class[n] # c
      BY <3>1
    <3> QED BY <1>3, <2>1, <3>1, <3>2
  <2>5. \A n \in Minors : state'[n] = "none" <=> class'[n] = None
    BY <1>1, <1>2, <1>3 DEF IInv, Objects, Types
  <2> QED BY <2>2, <2>4, <2>5 DEF Objects
<1>8. \A u \in Threads : pc[u] # "gone" => class'[hid[u]] = class[hid[u]]
  BY <1>1, <1>3, <1>4 DEF Types
<1>9. Named' /\ InUse'
  BY <1>3, <1>8 DEF IInv, Named, InUse
<1>10. InTime'
  BY <1>3 DEF IInv, InTime, Idle
<1> QED BY <1>5, <1>6, <1>7, <1>9, <1>10 DEF IInv

\* A thread that waits and the hub thread that waits for it grow older together.
LEMMA TickIInv ==
  ASSUME IInv, Timely, Tick
  PROVE  IInv'
<1>0. StopWait \in Nat /\ 0 < StopWait /\ None \notin Threads
  BY Constant
<1>1. Types
  BY DEF IInv
<1>2. /\ \A u \in Threads : pc[u] = "gone" \/ (pc[u] \in Waits /\ left[u] > 0)
      /\ left' = [u \in Threads |-> IF pc[u] \in Waits THEN left[u] - 1 ELSE left[u]]
      /\ hub' = IF HubWaits THEN [hub EXCEPT !.left = @ - 1] ELSE hub
      /\ UNCHANGED <<alive, minor, class, state, stop, task_handle, pc, hid, using>>
  BY DEF Tick, info
<1>3. /\ hub' \in [pc : {"idle", "run", "stop"}, class : Classes \cup {None}, left : Nat]
      /\ hub'.pc = hub.pc /\ hub'.class = hub.class
      /\ hub'.left = IF HubWaits THEN hub.left - 1 ELSE hub.left
  BY <1>1, <1>2 DEF Types, HubWaits
<1>4. left' \in [Threads -> Nat] /\ \A u \in Threads : left'[u] < StopWait
  <2>1. \A u \in Threads : left'[u] \in Nat /\ left'[u] < StopWait
    BY <1>0, <1>1, <1>2 DEF Types, Waits, IInv, InTime
  <2> QED BY <1>2, <2>1
<1>5. Types'
  BY <1>1, <1>2, <1>3, <1>4 DEF Types
<1>6. Starting' /\ Objects' /\ Named' /\ InUse'
  BY <1>2, <1>3 DEF IInv, Starting, Objects, Named, InUse
<1>7. InTime'
  <2> SUFFICES ASSUME hub.pc = "stop",
                      NEW u \in Threads, pc[u] # "gone", hid[u] = minor[hub.class]
               PROVE  hub'.left > 0 /\ (pc[u] \in Waits => left'[u] < hub'.left)
    BY <1>2, <1>3, <1>4 DEF IInv, InTime
  <2>1. hub.left > 0 /\ task_handle[hid[u]] = u /\ left[u] < hub.left
        /\ pc[u] \in Waits /\ left[u] > 0
    BY <1>2 DEF IInv, InTime, Named
  <2>2. HubWaits
    BY <1>0, <2>1 DEF HubWaits
  <2>3. left'[u] = left[u] - 1 /\ hub'.left = hub.left - 1
    BY <1>2, <1>3, <2>1, <2>2
  <2>4. left[u] \in Nat /\ hub.left \in Nat
    BY <1>1 DEF Types
  <2> QED BY <2>1, <2>3, <2>4
<1> QED BY <1>5, <1>6, <1>7 DEF IInv

LEMMA NextIInv == Timely /\ IInv /\ [Next]_vars => IInv'
<1> SUFFICES ASSUME Timely, IInv, [Next]_vars PROVE IInv'
  OBVIOUS
<1>1. CASE \E c \in Classes, m \in Minors, k \in Kinds \cup {None} : Attach(c, m, k)
  BY <1>1, AttachIInv
<1>2. CASE \E c \in Classes : Detach(c)
  BY <1>2, DetachIInv
<1>3. CASE HubStep
  BY <1>3, RunIInv, StoppedIInv DEF HubStep
<1>4. CASE \E t \in Threads : Thread(t)
  <2> PICK t \in Threads : Thread(t)
    BY <1>4
  <2>1. PICK w \in Places, x \in Nat : Leaves(t, w, x)
    BY ThreadLeaves
  <2>2. pc[t] # "gone" /\ UNCHANGED <<hub, alive, minor, class, state, stop>>
    BY ThreadLeaves
  <2> QED BY <2>1, <2>2, LeavingKeepsIInv
<1>5. CASE Update
  BY <1>5 DEF Update, stack, info, client, IInv, Types, Starting, Objects, Named, InUse, InTime
<1>6. CASE Tick
  BY <1>6, TickIInv
<1>7. CASE UNCHANGED vars
  BY <1>7 DEF vars, stack, info, client, IInv, Types, Starting, Objects, Named, InUse, InTime
<1> QED BY <1>1, <1>2, <1>3, <1>4, <1>5, <1>6, <1>7 DEF Next

-----------------------------------------------------------------------------
(* The invariant holds from start to end when every wait of a thread ends  *)
(* before usbh_hid_stop gives up.                                          *)
THEOREM InvariantHolds ==
  ASSUME Timely PROVE Spec => []IInv
<1>1. Init => IInv
  BY InitIInv
<1>2. IInv /\ [Next]_vars => IInv'
  BY NextIInv
<1> QED BY <1>1, <1>2, PTL DEF Spec

(* No client thread touches a class object after the stack has freed it,   *)
(* whatever the number of devices and whenever they go.                    *)
THEOREM ObjectsOutliveThreads ==
  ASSUME Timely PROVE Spec => []NoUseAfterFree
<1>1. IInv => NoUseAfterFree
  <2> SUFFICES ASSUME IInv, NEW t \in Threads, pc[t] # "gone"
               PROVE  /\ class[hid[t]] \in alive
                      /\ pc[t] \in {"urb", "halt"} => using[t] = class[hid[t]]
    BY DEF NoUseAfterFree
  <2>1. hid[t] \in Minors /\ class[hid[t]] # None
    BY DEF IInv, Types, Named
  <2> QED BY <2>1 DEF IInv, Objects, InUse
<1> QED BY <1>1, InvariantHolds, PTL

(* A minor has one client thread at most, the one that its task_handle     *)
(* names: an attach never starts a second one beside the old.              *)
THEOREM OneThreadPerMinor ==
  ASSUME Timely PROVE Spec => []OneThread
<1>1. IInv => OneThread
  BY DEF IInv, Named, OneThread
<1> QED BY <1>1, InvariantHolds, PTL

(* An attach finds its minor at rest: the wait of usbh_hid_run for an old  *)
(* thread is never made.                                                   *)
THEOREM AttachFindsRest ==
  ASSUME Timely PROVE Spec => []FindsNone
<1>1. IInv => FindsNone
  <2> SUFFICES ASSUME IInv, hub.pc = "run" PROVE state[minor[hub.class]] = "none"
    BY DEF FindsNone
  <2>1. hub.class \in Classes /\ minor[hub.class] \in Minors
        /\ class[minor[hub.class]] = None
    BY DEF IInv, Starting, Types
  <2> QED BY <2>1 DEF IInv, Objects
<1> QED BY <1>1, InvariantHolds, PTL
-----------------------------------------------------------------------------
(***************************************************************************)
(* The slots of the joysticks, and the types that rest on them.  A slot is *)
(* left for the joystick that starts because its own minor holds none: so  *)
(* this needs IInv, by which usbh_hid_run never finds a minor at work.     *)
(***************************************************************************)
Joysticks == Running("joystick")

SlotTypes ==
  /\ kind \in [Classes -> Kinds \cup {None}]
  /\ type \in [Minors -> Kinds \cup {None}]
  /\ js_index \in [Minors -> JsIndex]
SlotInv == SlotTypes /\ SlotsHeld

\* A set of naturals that is not empty has a least one.
LEMMA Least ==
  ASSUME NEW S, S \subseteq Nat, S # {}
  PROVE  \E i \in S : \A j \in S : i <= j
<1>1. PICK i \in S : \A j \in S : ~(<<j, i>> \in OpToRel(<, Nat))
  BY NatLessThanWellFounded, WFMin
<1>2. \A j \in S : ~(j < i)
  BY <1>1 DEF OpToRel
<1> QED BY <1>2

\* While some minor has no running joystick, a slot is free.
LEMMA SlotFree ==
  ASSUME SlotInv, NEW m \in Minors, m \notin Joysticks
  PROVE  FreeSlot \in JsIndex \ js_map
<1> DEFINE N == Cardinality(Minors)
<1>1. IsFiniteSet(Minors) /\ IsFiniteSet(Minors \ {m}) /\ N \in Nat
      /\ Cardinality(Minors \ {m}) = N - 1
  BY HidAssumption, FS_RemoveElement, FS_CardinalityType
<1>2. IsFiniteSet(Joysticks) /\ Cardinality(Joysticks) <= N - 1
  <2>1. Joysticks \in SUBSET (Minors \ {m})
    BY DEF Joysticks, Running
  <2> QED BY <1>1, <2>1, FS_Subset
<1>3. IsFiniteSet(js_map) /\ Cardinality(js_map) <= Cardinality(Joysticks)
  <2> DEFINE f == [j \in Joysticks |-> js_index[j]]
  <2>1. f \in Surjection(Joysticks, js_map)
    BY DEF SlotInv, SlotsHeld, Joysticks, Surjection
  <2> QED BY <1>2, <2>1, FS_Surjection
<1>4. Cardinality(JsIndex) = N
  <2>1. N - 1 \in Int /\ 0 \in Int
    BY <1>1
  <2>2. N # 0
    BY <1>1, FS_CardinalityType
  <2> QED BY <1>1, <2>1, <2>2, FS_Interval DEF JsIndex
<1>5. Cardinality(js_map) \in Nat /\ Cardinality(Joysticks) \in Nat
  BY <1>2, <1>3, FS_CardinalityType
<1>6. ~(JsIndex \subseteq js_map)
  <2>1. js_map = JsIndex => FALSE
    BY <1>1, <1>2, <1>3, <1>4, <1>5
  <2>2. js_map \subseteq JsIndex
    BY DEF SlotInv, SlotTypes, SlotsHeld, Running
  <2> QED BY <2>1, <2>2
<1>7. \E i \in JsIndex \ js_map : \A j \in JsIndex \ js_map : i <= j
  <2>1. JsIndex \ js_map \subseteq Nat /\ JsIndex \ js_map # {}
    BY <1>1, <1>6 DEF JsIndex
  <2> QED BY <2>1, Least
<1> QED BY <1>7 DEF FreeSlot

\* A step that moves no joystick keeps the slots.
LEMMA SlotsStay ==
  ASSUME SlotInv, UNCHANGED <<state, type, js_index, js_map>>,
         kind' \in [Classes -> Kinds \cup {None}]
  PROVE  SlotInv'
BY DEF SlotInv, SlotTypes, SlotsHeld, Running

\* The joystick that starts takes a slot that no other holds.
LEMMA RunSlots ==
  ASSUME IInv, SlotInv, NEW t \in Threads, Run(t)
  PROVE  SlotInv'
<1> DEFINE c == hub.class  m == minor[c]
<1>1. c \in Classes /\ m \in Minors /\ state[m] = "none"
  BY DEF IInv, Run, Starting, Types, Objects
<1>2. Types
  BY DEF IInv
<1>3. UNCHANGED kind
  BY DEF Run
<1>4. CASE kind[c] = None
  <2>1. state' = [state EXCEPT ![m] = "failed"] /\ UNCHANGED <<type, js_index, js_map>>
    BY <1>4 DEF Run
  <2>2. Running("joystick")' = Running("joystick")
    BY <1>1, <1>2, <2>1 DEF Running, Types
  <2> QED BY <1>3, <2>1, <2>2 DEF SlotInv, SlotTypes, SlotsHeld
<1>5. CASE kind[c] # None /\ kind[c] # "joystick"
  <2>1. /\ state' = [state EXCEPT ![m] = "running"] /\ type' = [type EXCEPT ![m] = kind[c]]
        /\ UNCHANGED <<js_index, js_map>>
    BY <1>5 DEF Run
  <2>2. SlotTypes'
    BY <1>1, <1>3, <2>1 DEF SlotInv, SlotTypes
  <2>3. Running("joystick")' = Running("joystick")
    BY <1>1, <1>2, <1>5, <2>1 DEF Running, Types, SlotInv, SlotTypes
  <2> QED BY <2>1, <2>2, <2>3 DEF SlotInv, SlotsHeld
<1>6. CASE kind[c] = "joystick"
  <2>0. "joystick" # None
    BY DEF None
  <2>1. /\ state' = [state EXCEPT ![m] = "running"] /\ type' = [type EXCEPT ![m] = kind[c]]
        /\ js_index' = [js_index EXCEPT ![m] = FreeSlot] /\ js_map' = js_map \cup {FreeSlot}
    BY <1>6, <2>0 DEF Run
  <2>2. m \notin Joysticks
    BY <1>1 DEF Joysticks, Running
  <2>3. FreeSlot \in JsIndex \ js_map
    BY <1>1, <2>2, SlotFree
  <2>4. SlotTypes'
    BY <1>1, <1>3, <2>1, <2>3 DEF SlotInv, SlotTypes
  <2>5. Running("joystick")' = Running("joystick") \cup {m}
    BY <1>1, <1>2, <1>6, <2>1 DEF Running, Types, SlotInv, SlotTypes
  <2>6. \A n \in Running("joystick") : n # m /\ js_index'[n] = js_index[n] /\ js_index[n] \in js_map
    BY <1>1, <2>1, <2>2 DEF SlotInv, SlotTypes, SlotsHeld, Joysticks, Running
  <2>7. js_index'[m] = FreeSlot
    BY <1>1, <2>1 DEF SlotInv, SlotTypes
  <2>8. \A n, k \in Running("joystick")' : n # k => js_index'[n] # js_index'[k]
    BY <2>3, <2>5, <2>6, <2>7 DEF SlotInv, SlotsHeld
  <2>9. js_map' = {js_index'[n] : n \in Running("joystick")'}
    BY <2>1, <2>5, <2>6, <2>7 DEF SlotInv, SlotsHeld
  <2> QED BY <2>4, <2>8, <2>9 DEF SlotInv, SlotsHeld
<1> QED BY <1>4, <1>5, <1>6

\* The joystick that goes gives its slot back, and no other.
LEMMA StoppedSlots ==
  ASSUME IInv, SlotInv, Stopped
  PROVE  SlotInv'
<1> DEFINE c == hub.class  m == minor[c]
<1>1. c \in Classes /\ m \in Minors
  BY DEF IInv, Stopped, InTime, Types
<1>2. /\ js_map' = IF state[m] = "running" /\ type[m] = "joystick"
                   THEN js_map \ {js_index[m]} ELSE js_map
      /\ state' = [state EXCEPT ![m] = "none"] /\ kind' = [kind EXCEPT ![c] = None]
      /\ UNCHANGED <<type, js_index>>
  BY DEF Stopped
<1>3. SlotTypes'
  BY <1>1, <1>2 DEF SlotInv, SlotTypes
<1>4. Running("joystick")' = Running("joystick") \ {m}
  BY <1>1, <1>2 DEF Running, IInv, Types
<1>5. js_map' = {js_index[n] : n \in Running("joystick") \ {m}}
  <2>1. CASE m \in Running("joystick")
    BY <1>2, <2>1 DEF SlotInv, SlotsHeld, Running
  <2>2. CASE m \notin Running("joystick")
    <3>1. js_map' = js_map
      BY <1>1, <1>2, <2>2 DEF Running
    <3> QED BY <2>2, <3>1 DEF SlotInv, SlotsHeld
  <2> QED BY <2>1, <2>2
<1> QED BY <1>2, <1>3, <1>4, <1>5 DEF SlotInv, SlotsHeld

LEMMA SlotsAlways ==
  ASSUME Timely PROVE Spec => [](IInv /\ SlotInv)
<1>1. Init => SlotInv
  <2>1. 0 \in JsIndex
    <3>1. Cardinality(Minors) \in Nat /\ Cardinality(Minors) # 0
      BY HidAssumption, FS_CardinalityType, FS_EmptySet
    <3> QED BY <3>1 DEF JsIndex
  <2> QED BY <2>1 DEF Init, SlotInv, SlotTypes, SlotsHeld, Running
<1>2. IInv /\ SlotInv /\ [Next]_vars => SlotInv'
  <2> SUFFICES ASSUME IInv, SlotInv, [Next]_vars PROVE SlotInv'
    OBVIOUS
  <2>1. ASSUME NEW c \in Classes, NEW m \in Minors, NEW k \in Kinds \cup {None}, Attach(c, m, k)
        PROVE  SlotInv'
    BY <2>1, SlotsStay DEF Attach, info, SlotInv, SlotTypes
  <2>2. ASSUME NEW c \in Classes, Detach(c) PROVE SlotInv'
    BY <2>2, SlotsStay DEF Detach, SlotInv, SlotTypes
  <2>3. CASE HubStep
    BY <2>3, RunSlots, StoppedSlots DEF HubStep
  <2>4. ASSUME NEW t \in Threads, Thread(t) PROVE SlotInv'
    BY <2>4, SlotsStay DEF Thread, Top, UrbReport, UrbTimeout, UrbGone, UrbError, HaltCleared,
         Parsed, Exit, stack, info, SlotInv, SlotTypes
  <2>5. CASE Update
    BY <2>5, SlotsStay DEF Update, stack, info, SlotInv, SlotTypes
  <2>6. CASE Tick
    BY <2>6, SlotsStay DEF Tick, info, SlotInv, SlotTypes
  <2>7. CASE UNCHANGED vars
    BY <2>7, SlotsStay DEF vars, stack, info, SlotInv, SlotTypes
  <2> QED BY <2>1, <2>2, <2>3, <2>4, <2>5, <2>6, <2>7 DEF Next
<1> QED BY <1>1, <1>2, InvariantHolds, PTL DEF Spec

(* Joysticks that are plugged and unplugged in any order have slots of     *)
(* their own, and a slot is held only while its joystick runs: the map     *)
(* never fills up.                                                         *)
THEOREM JoysticksHaveSlots ==
  ASSUME Timely PROVE Spec => []SlotsHeld
<1>1. SlotInv => SlotsHeld
  BY DEF SlotInv
<1> QED BY <1>1, SlotsAlways, PTL

\* What IInv and SlotInv do not say of the types.
OtherTypes ==
  /\ hub.pc = "idle" <=> hub.class = None
  /\ connected \subseteq Classes /\ busy \subseteq Classes

ToldTypes == mice_last \in -1..Cardinality(Minors) /\ system_mouse \in BOOLEAN

LEMMA ToldAlways == Spec => []ToldTypes
<1>1. Init => ToldTypes
  <2>1. -1 \in -1..Cardinality(Minors)
    BY HidAssumption, FS_CardinalityType
  <2> QED BY <2>1 DEF Init, ToldTypes
<1>2. ToldTypes /\ [Next]_vars => ToldTypes'
  <2> SUFFICES ASSUME ToldTypes, [Next]_vars PROVE ToldTypes'
    OBVIOUS
  <2>1. CASE Update
    <3>1. Cardinality(Minors) \in Nat /\ Cardinality(Running("mouse")) \in 0..Cardinality(Minors)
      BY HidAssumption, FS_Subset, FS_CardinalityType DEF Running
    <3> QED BY <2>1, <3>1 DEF Update, ToldTypes
  <2>2. CASE UNCHANGED told
    BY <2>2 DEF told, ToldTypes
  <2>3. (\E t \in Threads : Thread(t)) => UNCHANGED told
    BY DEF Thread, Top, UrbReport, UrbTimeout, UrbGone, UrbError, HaltCleared, Parsed, Exit
  <2>4. HubStep => UNCHANGED told
    BY DEF HubStep, Stopped, Run
  <2> QED BY <2>1, <2>2, <2>3, <2>4 DEF Next, Attach, Detach, Tick, vars
<1> QED BY <1>1, <1>2, PTL DEF Spec

(* Every variable keeps its type: in particular a joystick's slot is one   *)
(* that hid_info has.                                                      *)
THEOREM TypeCorrect ==
  ASSUME Timely PROVE Spec => []TypeOK
<1> USE DEF OtherTypes
<1>1. Init => OtherTypes
  <2> SUFFICES ASSUME Init PROVE OtherTypes
    OBVIOUS
  <2>1. hub.pc = "idle" /\ hub.class = None
    BY DEF Init, Idle
  <2>2. connected = {} /\ busy = {}
    BY DEF Init
  <2> QED BY <2>1, <2>2
<1>2. IInv /\ OtherTypes /\ [Next]_vars => OtherTypes'
  <2> SUFFICES ASSUME IInv, OtherTypes, [Next]_vars PROVE OtherTypes'
    OBVIOUS
  <2>0. None \notin Classes /\ Types
    BY HidAssumption DEF IInv
  <2>1. ASSUME NEW c \in Classes, NEW m \in Minors, NEW k \in Kinds \cup {None}, Attach(c, m, k)
        PROVE  OtherTypes'
    BY <2>0, <2>1 DEF Attach, Hub, client
  <2>2. ASSUME NEW c \in Classes, Detach(c) PROVE OtherTypes'
    BY <2>0, <2>2 DEF Detach, Hub, client, Types
  <2>3. CASE Stopped
    BY <2>3 DEF Stopped, Idle
  <2>4. ASSUME NEW t \in Threads, Run(t) PROVE OtherTypes'
    BY <2>4 DEF Run, Idle
  <2>5. ASSUME NEW t \in Threads, Thread(t) PROVE OtherTypes'
    <3>1. CASE Top(t)
      BY <3>1 DEF Top, stack
    <3>2. CASE UrbReport(t)
      BY <3>2 DEF UrbReport, stack
    <3>3. CASE UrbTimeout(t)
      <4>1. using[t] \in Classes
        BY <2>0, <3>3 DEF UrbTimeout, At, IInv, Named, InUse, Types
      <4> QED BY <3>3, <4>1 DEF UrbTimeout, stack
    <3>4. CASE Parsed(t)
      BY <3>4 DEF Parsed, stack
    <3>5. CASE UrbGone(t) \/ UrbError(t) \/ HaltCleared(t) \/ Exit(t)
      BY <3>5 DEF UrbGone, UrbError, HaltCleared, Exit, stack
    <3> QED BY <2>5, <3>1, <3>2, <3>3, <3>4, <3>5 DEF Thread
  <2>6. CASE Update
    BY <2>6 DEF Update, stack, client
  <2>7. CASE Tick
    BY <2>0, <2>7 DEF Tick, HubWaits, Types
  <2>8. CASE UNCHANGED vars
    BY <2>8 DEF vars, stack, client
  <2> QED BY <2>1, <2>2, <2>3, <2>4, <2>5, <2>6, <2>7, <2>8 DEF Next, HubStep
<1>3. IInv /\ SlotInv /\ OtherTypes /\ ToldTypes => TypeOK
  <2>1. SlotInv => js_map \subseteq JsIndex
    BY DEF SlotInv, SlotTypes, SlotsHeld, Running
  <2> QED BY <2>1 DEF IInv, Types, SlotInv, SlotTypes, ToldTypes, TypeOK
<1> QED BY <1>1, <1>2, <1>3, SlotsAlways, ToldAlways, PTL DEF Spec
=============================================================================
