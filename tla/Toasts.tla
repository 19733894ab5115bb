------------------------------- MODULE Toasts -------------------------------
(* The list of toasts of a page: toasts are shown, drawn in an animation     *)
(* frame, dismissed by a timer or by the user, pushed out by newer ones, and *)
(* taken off the page by a second timer; a navigation clears the page while  *)
(* frames and timers are still to come.                                      *)
EXTENDS Naturals, FiniteSets

CONSTANTS
  MaxToasts,  \* bound: how many toasts are shown
  Limit       \* how many toasts the page shows at once

ASSUME ToastsAssumption == MaxToasts \in Nat /\ Limit \in Nat \ {0}

VARIABLES
  shown,     \* how many toasts have been shown: they are numbered in this order
  toasts,    \* the list: always the newest first, so the set of its members
  removed,   \* toasts marked as removed
  elements,  \* toasts on the page
  frames,    \* toasts whose animation frame is to come
  dismissal, \* autoDismissTimers: toasts whose dismissal is timed
  timersMade,\* autoDismissTimers exists
  removal    \* toasts whose removal is timed

vars == <<shown, toasts, removed, elements, frames, dismissal, timersMade, removal>>
Ids == 1..MaxToasts

Init ==
  /\ shown = 0
  /\ toasts = {}
  /\ removed = {} /\ elements = {} /\ frames = {} /\ dismissal = {} /\ removal = {}
  /\ timersMade = FALSE

\* activeToasts, given the toasts of the list.
Active(list) == list \ removed

\* The place of a toast in a list, from 1, and the last of a list.
Place(t, list) == Cardinality({x \in list : x >= t})
Oldest(list) == {t \in list : \A x \in list : t <= x}

\* removeToast
CanRemove(t) == t \in toasts \ removed /\ t \in elements
RemoveToasts(ts) ==
  /\ removed' = removed \cup ts
  /\ removal' = removal \cup ts
  /\ dismissal' = dismissal \ ts

\* Fault: the toast that is pushed out is looked for in the whole list.
ShowOverWhole ==
  /\ shown < MaxToasts
  /\ shown' = shown + 1
  /\ toasts' = toasts \cup {shown'}
  /\ elements' = elements \cup {shown'}
  /\ frames' = frames \cup {shown'}
  /\ RemoveToasts({t \in Oldest(toasts') : Cardinality(toasts') > Limit /\ CanRemove(t)})
  /\ UNCHANGED timersMade

\* handleToastShow: with too many active toasts the oldest goes.
Show ==
  /\ shown < MaxToasts
  /\ shown' = shown + 1
  /\ toasts' = toasts \cup {shown'}
  /\ elements' = elements \cup {shown'}
  /\ frames' = frames \cup {shown'}
  /\ LET active == Active(toasts')
     IN RemoveToasts({t \in Oldest(active) : Cardinality(active) > Limit /\ CanRemove(t)})
  /\ UNCHANGED timersMade

\* Fault: the last toast that fits is not timed.
FrameBelowLimit(t) ==
  /\ t \in frames
  /\ frames' = frames \ {t}
  /\ IF t \in elements /\ (t \in Active(toasts) => Place(t, Active(toasts)) < Limit)
     THEN dismissal' = dismissal \cup {t} /\ timersMade' = TRUE
     ELSE UNCHANGED <<dismissal, timersMade>>
  /\ UNCHANGED <<shown, toasts, removed, elements, removal>>

\* The frame of renderToast times the dismissal of a toast among the first Limit, and
\* of one that is no longer active: findIndex gives -1.
Frame(t) ==
  /\ t \in frames
  /\ frames' = frames \ {t}
  /\ IF t \in elements /\ (t \in Active(toasts) => Place(t, Active(toasts)) <= Limit)
     THEN dismissal' = dismissal \cup {t} /\ timersMade' = TRUE
     ELSE UNCHANGED <<dismissal, timersMade>>
  /\ UNCHANGED <<shown, toasts, removed, elements, removal>>

\* The user closes a toast, or presses one of its buttons.
Close(t) ==
  /\ CanRemove(t)
  /\ RemoveToasts({t})
  /\ UNCHANGED <<shown, toasts, elements, frames, timersMade>>

Dismiss(t) ==
  /\ t \in dismissal
  /\ IF CanRemove(t) THEN RemoveToasts({t})
     ELSE dismissal' = dismissal \ {t} /\ UNCHANGED <<removed, removal>>
  /\ UNCHANGED <<shown, toasts, elements, frames, timersMade>>

\* The second timer of removeToast; a toast that moves up is timed if it is not yet, and
\* without any timers so far this raises.
TakeOff(t) ==
  /\ t \in removal
  /\ removal' = removal \ {t}
  /\ toasts' = toasts \ {t}
  /\ elements' = elements \ {t}
  /\ dismissal' = IF timersMade THEN dismissal \cup {x \in toasts' : Place(x, toasts') = Limit}
                  ELSE dismissal
  /\ UNCHANGED <<shown, removed, frames, timersMade>>

\* clearAllToasts before a page is cached or when it goes.
Clear ==
  /\ toasts' = {} /\ elements' = {} /\ dismissal' = {}
  /\ UNCHANGED <<shown, removed, frames, timersMade, removal>>

Next == Show \/ Clear \/ \E t \in Ids : Frame(t) \/ Close(t) \/ Dismiss(t) \/ TakeOff(t)

\* The browser runs timers, and animation frames as long as the page is looked at.
Spec == Init /\ [][Next]_vars /\ \A t \in Ids : WF_vars(Frame(t)) /\ WF_vars(Dismiss(t)) /\ WF_vars(TakeOff(t))

-----------------------------------------------------------------------------
(* Properties. *)

\* However toasts push each other out while frames and timers are outstanding, the page
\* never shows more active toasts than fit.
FewActive == Cardinality(Active(toasts)) <= Limit

\* No toast stays: frames that come late, toasts pushed out before their frame and
\* navigations never leave one without a timer.
EveryToastLeaves == \A t \in Ids : t \in toasts ~> t \notin toasts
=============================================================================
