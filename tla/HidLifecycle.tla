---------------------------- MODULE HidLifecycle ----------------------------
(***************************************************************************)
(* USB input devices come and go: usbh_hid_run and usbh_hid_stop, which    *)
(* the stack's hub thread calls at every attach and detach, and the client *)
(* thread that usb_host.c starts for each device.                          *)
(*                                                                         *)
(* The stack (external) gives an attached device a class object and a      *)
(* minor number, one device at a time, and frees the object as soon as     *)
(* usbh_hid_stop has returned.  The client thread works on that object, so *)
(* it must be out of it by then.  Time is counted in units; steps that do  *)
(* not wait take none.                                                     *)
(***************************************************************************)
EXTENDS Integers, FiniteSets

CONSTANTS
  Minors, Classes, Threads,   \* places in hid_info, the stack's objects, tasks
  Kinds,     \* kinds of device, "mouse" and "joystick" among them
  Urb,       \* longest wait for a report (HID_URB_MS, 1000 ms)
  Ctl,       \* longest control transfer (500 ms)
  Parse,     \* longest handling of a report
  StopWait,  \* longest wait of usbh_hid_stop for the thread (1200 ms)
  RunWait    \* longest wait of usbh_hid_run for an old thread (100 ms)

None == "none"
AnyMinor == CHOOSE m \in Minors : TRUE   \* of what is not in use
JsIndex == 0..(Cardinality(Minors) - 1)

ASSUME HidAssumption ==
  /\ IsFiniteSet(Minors) /\ Minors # {}
  /\ {"mouse", "joystick"} \subseteq Kinds /\ None \notin Kinds
  /\ None \notin Minors \cup Classes \cup Threads
  /\ {Urb, Ctl, Parse, StopWait, RunWait} \subseteq Nat

VARIABLES
  \* the stack
  hub,         \* what its thread does: [pc, class, left]
  alive,       \* class objects in use
  connected,   \* class objects whose port is connected
  minor, kind, \* of each class object; kind is None if its descriptor is no use
  \* hid_info
  class, state, type, js_index, stop, task_handle,
  js_map,
  \* the client threads: place, hid, class object in use, time it may still take
  pc, hid, using, left,
  busy,        \* class objects whose URB a timeout has killed
  mice_last,   \* running mice when usbh_update last told the core, -1 before
  system_mouse \* the core believes that there is a mouse

stack == <<hub, alive, connected, minor, kind>>
info == <<class, state, type, js_index, stop, js_map>>
client == <<pc, hid, using, left, busy>>
told == <<mice_last, system_mouse>>
vars == <<stack, info, task_handle, client, told>>

Idle == [pc |-> "idle", class |-> None, left |-> 0]
Hub(where, c, time) == hub' = [pc |-> where, class |-> c, left |-> time]

Init ==
  /\ hub = Idle /\ alive = {} /\ connected = {}
  /\ minor = [c \in Classes |-> AnyMinor]
  /\ kind = [c \in Classes |-> None]
  /\ class = [m \in Minors |-> None]
  /\ state = [m \in Minors |-> "none"]
  /\ type = [m \in Minors |-> None]
  /\ js_index = [m \in Minors |-> 0]
  /\ stop = [m \in Minors |-> FALSE]
  /\ task_handle = [m \in Minors |-> None]
  /\ js_map = {}
  /\ pc = [t \in Threads |-> "gone"]
  /\ hid = [t \in Threads |-> AnyMinor]
  /\ using = [t \in Threads |-> None]
  /\ left = [t \in Threads |-> 0]
  /\ busy = {}
  /\ mice_last = -1 /\ system_mouse \in BOOLEAN   \* the core may be older than the MCU's start

-----------------------------------------------------------------------------
(* The hub thread *)

\* A device is found: the stack makes its class object and calls usbh_hid_run,
\* which waits for the last thread if the minor is not at rest.
Attach(c, m, k) ==
  /\ hub = Idle
  /\ c \notin alive /\ \A d \in alive : minor[d] # m
  /\ alive' = alive \cup {c} /\ connected' = connected \cup {c}
  /\ minor' = [minor EXCEPT ![c] = m] /\ kind' = [kind EXCEPT ![c] = k]
  /\ Hub("run", c, IF state[m] = "none" THEN 0 ELSE RunWait)
  /\ UNCHANGED <<info, task_handle, client, told>>

\* Mutant: nobody waits for the thread.
WaitedNot(m) == TRUE
Waited(m) == task_handle[m] = None \/ hub.left = 0

\* Mutant: joysticks are counted, from one.
FreeSlotNext == Cardinality(js_map) + 1
FreeSlot == CHOOSE i \in JsIndex \ js_map : \A j \in JsIndex \ js_map : i <= j

\* The rest of usbh_hid_run; a descriptor that cannot be parsed starts nothing.
Run(t) ==
  LET c == hub.class  m == minor[c] IN
  /\ hub.pc = "run" /\ Waited(m)
  /\ pc[t] = "gone"
  /\ class' = [class EXCEPT ![m] = c]
  /\ stop' = [stop EXCEPT ![m] = FALSE]
  /\ IF kind[c] = None
     THEN /\ state' = [state EXCEPT ![m] = "failed"]
          /\ UNCHANGED <<type, js_index, js_map, task_handle, pc, hid>>
     ELSE /\ state' = [state EXCEPT ![m] = "running"]
          /\ type' = [type EXCEPT ![m] = kind[c]]
          /\ IF kind[c] = "joystick"
             THEN /\ js_index' = [js_index EXCEPT ![m] = FreeSlot]
                  /\ js_map' = js_map \cup {FreeSlot}
             ELSE UNCHANGED <<js_index, js_map>>
          /\ task_handle' = [task_handle EXCEPT ![m] = t]
          /\ pc' = [pc EXCEPT ![t] = "top"] /\ hid' = [hid EXCEPT ![t] = m]
  /\ hub' = Idle
  /\ UNCHANGED <<alive, connected, minor, kind, using, left, busy, told>>

\* The device has gone: the port is not connected, and usbh_hid_stop tells the thread.
Detach(c) ==
  LET m == minor[c] IN
  /\ hub = Idle /\ c \in alive
  /\ connected' = connected \ {c}
  /\ stop' = [stop EXCEPT ![m] = TRUE]
  /\ Hub("stop", c, StopWait)
  /\ UNCHANGED <<alive, minor, kind, class, state, type, js_index, js_map, task_handle, client, told>>

\* Mutant: a minor that failed is not put to rest.
StoppedIfRan ==
  LET c == hub.class  m == minor[c] IN
  /\ hub.pc = "stop" /\ Waited(m)
  /\ js_map' = IF state[m] = "running" /\ type[m] = "joystick"
               THEN js_map \ {js_index[m]} ELSE js_map
  /\ class' = [class EXCEPT ![m] = None]
  /\ state' = [state EXCEPT ![m] = IF @ = "running" THEN "none" ELSE @]
  /\ alive' = alive \ {c} /\ busy' = busy \ {c}
  /\ minor' = [minor EXCEPT ![c] = AnyMinor] /\ kind' = [kind EXCEPT ![c] = None]
  /\ hub' = Idle
  /\ UNCHANGED <<connected, type, js_index, stop, task_handle, pc, hid, using, left, told>>

\* Mutant: a joystick's slot is not given back.
StoppedKeeps ==
  LET c == hub.class  m == minor[c] IN
  /\ hub.pc = "stop" /\ Waited(m)
  /\ UNCHANGED js_map
  /\ class' = [class EXCEPT ![m] = None]
  /\ state' = [state EXCEPT ![m] = "none"]
  /\ alive' = alive \ {c} /\ busy' = busy \ {c}
  /\ minor' = [minor EXCEPT ![c] = AnyMinor] /\ kind' = [kind EXCEPT ![c] = None]
  /\ hub' = Idle
  /\ UNCHANGED <<connected, type, js_index, stop, task_handle, pc, hid, using, left, told>>

\* The rest of usbh_hid_stop, and the stack frees the object.
Stopped ==
  LET c == hub.class  m == minor[c] IN
  /\ hub.pc = "stop" /\ Waited(m)
  /\ js_map' = IF state[m] = "running" /\ type[m] = "joystick"
               THEN js_map \ {js_index[m]} ELSE js_map
  /\ class' = [class EXCEPT ![m] = None]
  /\ state' = [state EXCEPT ![m] = "none"]
  /\ alive' = alive \ {c} /\ busy' = busy \ {c}
  /\ minor' = [minor EXCEPT ![c] = AnyMinor] /\ kind' = [kind EXCEPT ![c] = None]
  /\ hub' = Idle
  /\ UNCHANGED <<connected, type, js_index, stop, task_handle, pc, hid, using, left, told>>

-----------------------------------------------------------------------------
(* usbh_hid_client_thread *)

At(t, where) == pc[t] = where
Wait(t, where, time) == pc' = [pc EXCEPT ![t] = where] /\ left' = [left EXCEPT ![t] = time]
Goto(t, where) == Wait(t, where, 0)

\* Mutant: the error code of a killed URB stays.
TopBusy(t) ==
  LET m == hid[t]  c == class[m] IN
  /\ At(t, "top")
  /\ IF stop[m] \/ c \notin connected
     THEN Goto(t, "exit") /\ UNCHANGED <<using, busy>>
     ELSE /\ Wait(t, "urb", Urb)
          /\ using' = [using EXCEPT ![t] = c]
          /\ UNCHANGED busy
  /\ UNCHANGED <<stack, info, task_handle, hid, told>>

\* The loop's head: the URB is filled, its error code cleared, and submitted.
Top(t) ==
  LET m == hid[t]  c == class[m] IN
  /\ At(t, "top")
  /\ IF stop[m] \/ c \notin connected
     THEN Goto(t, "exit") /\ UNCHANGED <<using, busy>>
     ELSE /\ Wait(t, "urb", Urb)
          /\ using' = [using EXCEPT ![t] = c]
          /\ busy' = busy \ {c}
  /\ UNCHANGED <<stack, info, task_handle, hid, told>>

\* A report.  One that comes as the URB ends in silence leaves its bytes and the
\* semaphore behind, and the next takes the place of both: nobody asks for them
\* but after a URB that has brought a report.
UrbReport(t) ==
  /\ At(t, "urb") /\ using[t] \in connected \ busy
  /\ IF stop[hid[t]] THEN Goto(t, "exit") ELSE Wait(t, "parse", Parse)
  /\ UNCHANGED <<stack, info, task_handle, hid, using, busy, told>>

\* Silence: the stack kills the URB, which keeps its error code.
UrbTimeout(t) ==
  /\ At(t, "urb") /\ using[t] \notin busy /\ left[t] = 0
  /\ busy' = busy \cup {using[t]}
  /\ Goto(t, IF stop[hid[t]] THEN "exit" ELSE "top")
  /\ UNCHANGED <<stack, info, task_handle, hid, using, told>>

\* The stack says that the device has gone.
UrbGone(t) ==
  /\ At(t, "urb") /\ using[t] \notin connected
  /\ Goto(t, "exit")
  /\ UNCHANGED <<stack, info, task_handle, hid, using, busy, told>>

\* Any other error; a stalled endpoint is cleared with a control transfer.
\* A URB that is still marked busy is refused at once.
UrbError(t) ==
  /\ At(t, "urb")
  /\ IF stop[hid[t]] THEN Goto(t, "exit")
     ELSE Goto(t, "top") \/ Wait(t, "halt", Ctl)
  /\ UNCHANGED <<stack, info, task_handle, hid, using, busy, told>>

HaltCleared(t) ==
  /\ At(t, "halt")
  /\ Goto(t, "top")
  /\ UNCHANGED <<stack, info, task_handle, hid, using, busy, told>>

Parsed(t) ==
  /\ At(t, "parse")
  /\ Goto(t, "top")
  /\ UNCHANGED <<stack, info, task_handle, hid, using, busy, told>>

Exit(t) ==
  /\ At(t, "exit")
  /\ task_handle' = [task_handle EXCEPT ![hid[t]] = None]
  /\ Goto(t, "gone")
  /\ hid' = [hid EXCEPT ![t] = AnyMinor] /\ using' = [using EXCEPT ![t] = None]
  /\ UNCHANGED <<stack, info, busy, told>>

-----------------------------------------------------------------------------
Running(k) == {m \in Minors : state[m] = "running" /\ type[m] = k}

\* Mutant: the core hears of mice that come.
UpdateUp ==
  LET mice == Cardinality(Running("mouse")) IN
  /\ mice > mice_last
  /\ mice_last' = mice /\ system_mouse' = (mice > 0)
  /\ UNCHANGED <<stack, info, task_handle, client>>

\* usbh_update, every 100 ms: the core is told when the number of mice changes,
\* and after a start of the MCU.
Update ==
  LET mice == Cardinality(Running("mouse")) IN
  /\ mice # mice_last
  /\ mice_last' = mice /\ system_mouse' = (mice > 0)
  /\ UNCHANGED <<stack, info, task_handle, client>>

Waits == {"urb", "halt", "parse"}
HubWaits == hub.pc # "idle" /\ hub.left > 0 /\ task_handle[minor[hub.class]] # None

\* Time passes only while nobody could go on without it.
Tick ==
  /\ \A t \in Threads : pc[t] = "gone" \/ (pc[t] \in Waits /\ left[t] > 0)
  /\ hub.pc = "idle" \/ HubWaits
  /\ \E t \in Threads : pc[t] \in Waits
  /\ left' = [t \in Threads |-> IF pc[t] \in Waits THEN left[t] - 1 ELSE left[t]]
  /\ hub' = IF HubWaits THEN [hub EXCEPT !.left = @ - 1] ELSE hub
  /\ UNCHANGED <<alive, connected, minor, kind, info, task_handle, pc, hid, using, busy, told>>

Thread(t) ==
  \/ Top(t) \/ UrbReport(t) \/ UrbTimeout(t) \/ UrbGone(t) \/ UrbError(t)
  \/ HaltCleared(t) \/ Parsed(t) \/ Exit(t)
HubStep == Stopped \/ \E t \in Threads : Run(t)
Next ==
  \/ \E c \in Classes, m \in Minors, k \in Kinds \cup {None} : Attach(c, m, k)
  \/ \E c \in Classes : Detach(c)
  \/ HubStep \/ (\E t \in Threads : Thread(t)) \/ Update \/ Tick

Spec == Init /\ [][Next]_vars

-----------------------------------------------------------------------------
Places == {"gone", "top", "urb", "halt", "parse", "exit"}
TypeOK ==
  /\ hub \in [pc : {"idle", "run", "stop"}, class : Classes \cup {None}, left : Nat]
  /\ hub.pc = "idle" <=> hub.class = None
  /\ alive \subseteq Classes /\ connected \subseteq Classes /\ busy \subseteq Classes
  /\ minor \in [Classes -> Minors] /\ kind \in [Classes -> Kinds \cup {None}]
  /\ class \in [Minors -> Classes \cup {None}]
  /\ state \in [Minors -> {"none", "running", "failed"}]
  /\ type \in [Minors -> Kinds \cup {None}]
  /\ js_index \in [Minors -> JsIndex] /\ js_map \subseteq JsIndex
  /\ stop \in [Minors -> BOOLEAN]
  /\ task_handle \in [Minors -> Threads \cup {None}]
  /\ pc \in [Threads -> Places] /\ hid \in [Threads -> Minors]
  /\ using \in [Threads -> Classes \cup {None}] /\ left \in [Threads -> Nat]
  /\ mice_last \in -1..Cardinality(Minors) /\ system_mouse \in BOOLEAN

Here(m) == {t \in Threads : pc[t] # "gone" /\ hid[t] = m}

(* The client thread never touches a class object that the stack has       *)
(* freed: "the stack frees hid_class the moment this returns, so the       *)
(* thread must be out of it by then".                                      *)
NoUseAfterFree ==
  \A t \in Threads :
    /\ pc[t] \in {"urb", "halt"} => using[t] \in alive /\ using[t] = class[hid[t]]
    /\ pc[t] \in {"top", "parse"} => class[hid[t]] \in alive

(* A minor has one thread at most, the one that its task_handle names.     *)
OneThread == \A t \in Threads : pc[t] # "gone" => task_handle[hid[t]] = t

(* A re-attach never finds its minor at work: the wait of usbh_hid_run for *)
(* an old thread is never made.                                            *)
FindsNone == hub.pc = "run" => state[minor[hub.class]] = "none"

(* Running joysticks have slots of their own, and no other slot is kept.   *)
SlotsHeld ==
  /\ \A m, n \in Running("joystick") : m # n => js_index[m] # js_index[n]
  /\ js_map = {js_index[m] : m \in Running("joystick")}

(* A device that stays attached is listened to again and again: its thread *)
(* never ends for good, nor submits a URB that the stack refuses.          *)
Listening(m) ==
  \E t \in Here(m) : pc[t] = "urb" /\ using[t] = class[m] /\ class[m] \notin busy
Served == \A m \in Minors : state[m] = "running" ~> (Listening(m) \/ state[m] # "running")

(* The core hears of the mouse that stays and of the last one that went,   *)
(* "whatever the FPGA holds" when the MCU starts.                          *)
MouseTold ==
  /\ <>[](Running("mouse") # {}) => <>[]system_mouse
  /\ <>[](Running("mouse") = {}) => <>[]~system_mouse

FairSpec ==
  Spec /\ (\A t \in Threads : WF_vars(Thread(t))) /\ WF_vars(HubStep)
    /\ WF_vars(Update) /\ WF_vars(Tick)
=============================================================================
