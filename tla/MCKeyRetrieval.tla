--------------------------- MODULE MCKeyRetrieval ---------------------------
(***************************************************************************)
(* The instances of KeyRetrieval that TLC checks: an object of three       *)
(* servers, two of which are needed; server c is faulty.                   *)
(***************************************************************************)
EXTENDS KeyRetrieval

MCFullId == {"this package"} \X {"this id", "other id"}
MCH1 == [full_id \in MCFullId |-> IF full_id[2] = "this id" THEN 5 ELSE 7]

MCServer == {"a", "b", "c"}
MCServerSeed == [s \in MCServer |-> s]
MCIndex == {0, 1}
MCHkdf == [s \in MCServer, index \in MCIndex |->
             (CASE s = "a" -> 11 [] s = "b" -> 13 [] s = "c" -> 17) + 18 * index]
MCSecret == <<101, 103, 107>>

Servers == <<"a", "b", "c">>

MCRequest ==
  [package_id |-> "this package", id |-> "this id", key_servers |-> Servers,
   public_keys |-> [k \in 1..3 |-> MCHkdf[MCServerSeed[Servers[k]], 0]],
   threshold |-> 2,
   input |-> [mode |-> "Hmac256Ctr", data |-> <<Opaque(<<"message", 1>>)>>, aad |-> <<>>]]

MCOtherIds == {<<"this package", "other id">>}
=============================================================================
