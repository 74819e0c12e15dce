----------------------------- MODULE CopyToast -----------------------------
(***************************************************************************)
(* Copying to the clipboard: the copy buttons (components/CopyButton.tsx), *)
(* the one toast they and the prompt chips share (lib/toast.ts), and the   *)
(* timers that take the confirmations away again.                          *)
(***************************************************************************)
EXTENDS Integers

CONSTANTS
    Buttons,
    VISIBLE_MS,         \* how long the toast stays, in ticks of the clock
    RESET_AFTER_MS,     \* how long a button keeps its check
    nothing             \* no toast yet, no timer set

\* 2000 ms and 1600 ms in the code. A null is no button and no delay.
ASSUME CopyAssumption ==
    /\ VISIBLE_MS \in Nat \ {0} /\ RESET_AFTER_MS \in 1 .. VISIBLE_MS
    /\ nothing \notin Buttons \cup Nat

VARIABLES
    toast,              \* [source, ok, open]: kept when it closes, for its exit
    toastTimers,        \* ticks left of each timer that will close it
    button,             \* of each: [mounted, state]
    buttonTimer,        \* ticks left of its timer, nothing
    copies,             \* the copies under way: the buttons, nothing for a chip
    age                 \* how long ago the toast, and each button's state, was set

copyVars == <<toast, toastTimers, button, buttonTimer, copies, age>>

\* Mutant: no toast yet is no record.
UnshownYet == nothing

Unshown == [source |-> nothing, ok |-> FALSE, open |-> FALSE]

\* Mutant: the earlier toast's timer is left running.
showToastTimed(source, ok) ==
    /\ toast' = [source |-> source, ok |-> ok, open |-> TRUE]
    /\ toastTimers' = toastTimers \cup {VISIBLE_MS}

\* Replacing a visible toast restarts its timer.
showToast(source, ok) ==
    /\ toast' = [source |-> source, ok |-> ok, open |-> TRUE]
    /\ toastTimers' = {VISIBLE_MS}

PressCopy(b) ==
    /\ b \in Buttons => button[b].mounted
    /\ copies' = copies \cup {b}
    /\ UNCHANGED <<toast, toastTimers, button, buttonTimer, age>>

\* copyText answers whether it could, and never rejects. A button that is gone
\* by then still shows the toast, and leaves a timer behind for nothing.
Copied(b, ok) ==
    /\ b \in copies /\ copies' = copies \ {b}
    /\ showToast(b, ok)
    /\ IF b = nothing
       THEN /\ age' = [age EXCEPT ![nothing] = 0]
            /\ UNCHANGED <<button, buttonTimer>>
       ELSE /\ age' = [age EXCEPT ![nothing] = 0, ![b] = 0]
            /\ button' = IF button[b].mounted
                         THEN [button EXCEPT ![b].state = IF ok THEN "copied" ELSE "failed"]
                         ELSE button
            /\ buttonTimer' = [buttonTimer EXCEPT ![b] = RESET_AFTER_MS]

\* Unmounting clears the timer; mounting again is a new button.
UnmountButton(b) ==
    /\ button[b].mounted
    /\ button' = [button EXCEPT ![b] = [mounted |-> FALSE, state |-> "idle"]]
    /\ buttonTimer' = [buttonTimer EXCEPT ![b] = nothing]
    /\ UNCHANGED <<toast, toastTimers, copies, age>>

MountButton(b) ==
    /\ ~button[b].mounted /\ b \notin copies
    /\ button' = [button EXCEPT ![b].mounted = TRUE]
    /\ buttonTimer' = [buttonTimer EXCEPT ![b] = nothing]
    /\ UNCHANGED <<toast, toastTimers, copies, age>>

\* Time passes for every timer; the ones that end here fire.
PassTime ==
    /\ toastTimers' = {t - 1 : t \in toastTimers \ {1}}
    /\ toast' = IF 1 \in toastTimers THEN [toast EXCEPT !.open = FALSE] ELSE toast
    /\ buttonTimer' = [b \in Buttons |-> IF buttonTimer[b] \in {1, nothing} THEN nothing
                                         ELSE buttonTimer[b] - 1]
    /\ button' = [b \in Buttons |-> IF buttonTimer[b] = 1 THEN [button[b] EXCEPT !.state = "idle"]
                                    ELSE button[b]]
    /\ age' = [x \in DOMAIN age |-> IF age[x] < VISIBLE_MS THEN age[x] + 1 ELSE age[x]]
    /\ UNCHANGED copies

CopyInit ==
    /\ toast = Unshown /\ toastTimers = {}
    /\ button = [b \in Buttons |-> [mounted |-> TRUE, state |-> "idle"]]
    /\ buttonTimer = [b \in Buttons |-> nothing]
    /\ copies = {} /\ age = [x \in Buttons \cup {nothing} |-> VISIBLE_MS]

CopyNext ==
    \/ \E b \in Buttons \cup {nothing} : PressCopy(b) \/ \E ok \in BOOLEAN : Copied(b, ok)
    \/ \E b \in Buttons : UnmountButton(b) \/ MountButton(b)
    \/ PassTime

CopySpec == CopyInit /\ [][CopyNext]_copyVars

----------------------------------------------------------------------------
(* Properties *)

CopyTypeOK ==
    /\ toast \in [source : Buttons \cup {nothing}, ok : BOOLEAN, open : BOOLEAN]
    /\ toastTimers \subseteq 1 .. VISIBLE_MS
    /\ button \in [Buttons -> [mounted : BOOLEAN, state : {"idle", "copied", "failed"}]]
    /\ buttonTimer \in [Buttons -> 1 .. RESET_AFTER_MS \cup {nothing}]
    /\ copies \subseteq Buttons \cup {nothing}

\* A confirmation is on screen for its whole time, however many copies follow
\* one another: the timer of an earlier one does not take it away (each clears
\* the timer of the one before).
ConfirmationStaysItsTime ==
    [][ /\ toast.open /\ ~toast'.open => age'[nothing] >= VISIBLE_MS
        /\ \A b \in Buttons : button[b].state # "idle" /\ button'[b].state = "idle"
              => ~button'[b].mounted \/ age'[b] >= RESET_AFTER_MS ]_copyVars
=============================================================================
