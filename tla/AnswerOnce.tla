----------------------------- MODULE AnswerOnce -----------------------------
(***************************************************************************)
(* What an Idempotency-Key promises a client of the gateway, with nothing  *)
(* said about caches, time or processes: an attempt that begins when its   *)
(* key has been answered is given one of the answers already given for the *)
(* same body, until the gateway forgets the key.                           *)
(***************************************************************************)
CONSTANTS Attempts, Keys, Bodies, Answers, NoAnswer

VARIABLES told,   \* told[k]: the <<body, answer>> pairs clients were given under k
          due,    \* due[a]: the attempt in progress
          given   \* given[a]: the answer the attempt got

Idle == [key |-> "none"]

OnceInit == /\ told = [k \in Keys |-> {}]
            /\ due = [a \in Attempts |-> Idle]
            /\ given = [a \in Attempts |-> NoAnswer]

(* The answers that count for an attempt are those given before it began.  *)
BeginOnce(a, k, b) ==
    /\ due[a] = Idle
    /\ due' = [due EXCEPT ![a] = [key |-> k, body |-> b, only |-> {r \in Answers : <<b, r>> \in told[k]}]]
    /\ UNCHANGED <<told, given>>

(* Remembering one key may push others out.                                *)
AnswerFirst(a, r, forgotten) ==
    /\ due[a] # Idle /\ due[a].only = {}
    /\ told' = [k \in Keys |-> IF k = due[a].key THEN told[k] \cup {<<due[a].body, r>>}
                               ELSE IF k \in forgotten THEN {} ELSE told[k]]
    /\ due' = [due EXCEPT ![a] = Idle]
    /\ given' = [given EXCEPT ![a] = r]

AnswerAgain(a, r) ==
    /\ due[a] # Idle /\ r \in due[a].only
    /\ due' = [due EXCEPT ![a] = Idle]
    /\ given' = [given EXCEPT ![a] = r]
    /\ UNCHANGED told

(* Attempts fail, keys are forgotten.                                      *)
Drop(failed, forgotten) ==
    /\ due' = [a \in Attempts |-> IF a \in failed THEN Idle ELSE due[a]]
    /\ told' = [k \in Keys |-> IF k \in forgotten THEN {} ELSE told[k]]
    /\ UNCHANGED given

OnceNext ==
    \/ \E a \in Attempts, k \in Keys, b \in Bodies : BeginOnce(a, k, b)
    \/ \E a \in Attempts, r \in Answers, forgotten \in SUBSET Keys : AnswerFirst(a, r, forgotten) \/ AnswerAgain(a, r)
    \/ \E failed \in SUBSET Attempts, forgotten \in SUBSET Keys : Drop(failed, forgotten)

OnceSpec == OnceInit /\ [][OnceNext]_<<told, due, given>>

=============================================================================
