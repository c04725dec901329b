------------------------------ MODULE Keyring -------------------------------
(***************************************************************************)
(* What the retrieval of keys promises a client, without messages, key     *)
(* pairs and cryptography: a ring of user secret keys to which keys are    *)
(* added one at a time, from which they disappear all at once or not at    *)
(* all, and which gives the payload to whoever has enough of them on it.   *)
(***************************************************************************)
CONSTANTS
  Server,   \* those whose keys can be on the ring
  Enough,   \* the sets of servers whose keys together open the object
  Payload,  \* what is in the object
  Nothing   \* what the client has before it opened the object

VARIABLES
  held,   \* the servers whose key is on the ring
  got     \* what the client got out of the object

vars == <<held, got>>

Init == held = {} /\ got = Nothing

Obtain ==
  /\ \E server \in Server \ held : held' = held \cup {server}
  /\ UNCHANGED got

Forget ==
  /\ held' = {}
  /\ UNCHANGED got

Read ==
  /\ held \in Enough
  /\ got' = Payload
  /\ UNCHANGED held

Next == Obtain \/ Forget \/ Read

Spec == Init /\ [][Next]_vars
=============================================================================
