-------------------------------- MODULE Mails --------------------------------
(***************************************************************************)
(* What the mail queue promises whoever hands it a mail (addJobToQueue and *)
(* the worker of services/BullMQService.ts, processing with                *)
(* services/MailService.ts): a mail accepted is delivered and done, or     *)
(* given up; it is delivered again only if the worker vanished after it    *)
(* was and before the queue knew; done is for ever, and one given up comes *)
(* back only if somebody asks.                                             *)
(***************************************************************************)
CONSTANT Jobs

VARIABLES
    fate,       \* what has become of each mail
    lost        \* mails delivered by a worker that vanished before the queue knew

vars == <<fate, lost>>

Fates == {"none", "queued", "delivered", "done", "given up"}

Init ==
    /\ fate = [j \in Jobs |-> "none"]
    /\ lost = {}

Becomes(j, from, to) ==
    /\ fate[j] = from
    /\ fate' = [fate EXCEPT ![j] = to]
    /\ UNCHANGED lost

Accept(j) == Becomes(j, "none", "queued")
Deliver(j) == Becomes(j, "queued", "delivered")
Settle(j) == Becomes(j, "delivered", "done")
GiveUp(j) == Becomes(j, "queued", "given up")
AskAgain(j) == Becomes(j, "given up", "queued")

\* A process dies with the mails S in its hands.
Vanish(S) ==
    /\ \A j \in S : fate[j] \in {"queued", "delivered"}
    /\ \E again \in SUBSET S :
        fate' = [j \in Jobs |-> IF j \in again THEN "queued"
                                ELSE IF j \in S THEN "given up" ELSE fate[j]]
    /\ lost' = lost \union {j \in S : fate[j] = "delivered"}

Next ==
    \/ \E j \in Jobs : Accept(j) \/ Deliver(j) \/ Settle(j) \/ GiveUp(j) \/ AskAgain(j)
    \/ \E S \in SUBSET Jobs : Vanish(S)

Spec == Init /\ [][Next]_vars
=============================================================================
