--------------------------- MODULE CryptoService ---------------------------
(***************************************************************************)
(* What secure_aes_process_buffer promises its callers: a call returns an  *)
(* error, or the result of the request it was given and of no other.       *)
(***************************************************************************)
CONSTANTS
  Client, Request,
  Right(_, _),  \* which answer is right for which request
  NoAnswer, Error

VARIABLES
  pending,  \* the request of each client, or NoAnswer
  answer    \* the answer to each client's last request

Init ==
  /\ pending = [c \in Client |-> NoAnswer]
  /\ answer = [c \in Client |-> NoAnswer]

Ask(c, r) ==
  /\ pending[c] = NoAnswer
  /\ pending' = [pending EXCEPT ![c] = r]
  /\ answer' = [answer EXCEPT ![c] = NoAnswer]

Fail(c) ==
  /\ pending[c] # NoAnswer
  /\ answer' = [answer EXCEPT ![c] = Error]
  /\ pending' = [pending EXCEPT ![c] = NoAnswer]

Serve(c) ==
  /\ pending[c] # NoAnswer
  /\ pending' = [pending EXCEPT ![c] = NoAnswer]
  /\ answer' = [answer EXCEPT ![c] = answer'[c]]
  /\ Right(pending[c], answer'[c])

Next == \E c \in Client : Fail(c) \/ Serve(c) \/ \E r \in Request : Ask(c, r)

Spec == Init /\ [][Next]_<<pending, answer>>

=============================================================================
