------------------------------- MODULE Vault --------------------------------
(***************************************************************************)
(* What SEAL promises its callers, without any cryptography: a vault keeps *)
(* each payload as it was put, with a key made for it, and a get either is *)
(* refused or returns the payload, or in its place the key, to a caller    *)
(* with keys for at least threshold of the places.                         *)
(* The vault may refuse any get: what comes back from storage may be       *)
(* damaged, or a key may be wrong.                                         *)
(***************************************************************************)
EXTENDS Sequences, Naturals

VARIABLES
  puts,   \* the calls of put: Refused, or a payload, its key and threshold
  gets    \* the calls of get: the put that is asked for, the number of the
          \* places that the caller has keys for, and the answer

vars == <<puts, gets>>

Refused == <<>>

Init == puts = <<>> /\ gets = {}

(* Something is put or refused; nothing that was put before changes.       *)
Put ==
  /\ puts' # <<>>
  /\ puts' = Append(puts, puts'[Len(puts')])
  /\ UNCHANGED gets

(* The answers to the get of something that was put.                       *)
Answers(get) ==
  \/ get.answer = Refused
  \/ /\ get.held >= puts[get.put][1].threshold
     /\ get.answer \in {<<puts[get.put][1].payload>>, <<puts[get.put][1].key>>}

Get ==
  /\ \E get \in gets' :
       /\ gets' = gets \cup {get}
       /\ get.put \in DOMAIN puts
       /\ puts[get.put] # Refused
       /\ Answers(get)
  /\ UNCHANGED puts

Next == Put \/ Get

Spec == Init /\ [][Next]_vars
=============================================================================
