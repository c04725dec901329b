------------------------------- MODULE MCSeal -------------------------------
(***************************************************************************)
(* The instance of Seal that TLC checks. Three key servers, lists of       *)
(* servers with one server twice and one that is too long for a u8 (which  *)
(* is 0..3 here), and the requests that seal_encrypt refuses.              *)
(***************************************************************************)
EXTENDS Seal

Ids == {"this id", "other id"}
Packages == {"this package", "other package"}

MCFullId == Packages \X Ids
MCH1 == [full_id \in MCFullId |->
           (IF full_id[1] = "this package" THEN 2 ELSE 3)
           * (IF full_id[2] = "this id" THEN 5 ELSE 7)]
MCMasterKey == [s \in {"a", "b", "c"} |-> CASE s = "a" -> 11 [] s = "b" -> 13 [] s = "c" -> 17]

Public(servers) == [k \in DOMAIN servers |-> MCMasterKey[servers[k]]]

Message == <<Opaque(<<"message", 1>>), Opaque(<<"message", 2>>), Opaque(<<"message", 3>>)>>
Aad == Opaque(<<"aad">>)
MCText == {Opaque(<<"message", i>>) : i \in 1..3} \cup {Aad}
Input(mode, data, aad) == [mode |-> mode, data |-> data, aad |-> aad]

Call(servers, public_keys, threshold, input) ==
  [package_id |-> "this package", id |-> "this id", key_servers |-> servers,
   public_keys |-> public_keys, threshold |-> threshold, input |-> input]

ABC == <<"a", "b", "c">>
AAB == <<"a", "a", "b">>
ABA == <<"a", "b", "a">>
TooLong == <<"a", "b", "c", "a", "b", "c">>

Hmac == Input("Hmac256Ctr", Message, <<<<Aad>>>>)
Aes == Input("Aes256Gcm", Message, <<>>)
Plain == Input("Plain", <<>>, <<>>)
Empty == Input("Hmac256Ctr", <<>>, <<>>)

MCRequests ==
  {Call(ABC, Public(ABC), t, Hmac) : t \in 0..4}
  \cup {Call(ABC, Public(ABC), 2, Aes), Call(ABC, Public(ABC), 2, Plain),
        Call(ABC, Public(ABC), 2, Empty),
        Call(AAB, Public(AAB), 2, Hmac),
        Call(ABA, Public(ABA), 3, Hmac),
        Call(ABC, Public(<<"b", "a", "c">>), 2, Hmac),
        Call(ABC, Public(<<"a", "b">>), 2, Hmac),
        Call(TooLong, Public(TooLong), 2, Hmac),
        Call(TooLong, Public(<<"a", "b">>), 2, Hmac)}

(* The requests of the runs with fewer calls. *)
MCTwiceRequests ==
  {Call(ABC, Public(ABC), t, Hmac) : t \in 1..2} \cup {Call(AAB, Public(AAB), 2, Hmac)}

MCFewRequests ==
  {Call(ABC, Public(ABC), 2, Hmac), Call(ABC, Public(ABC), 2, Plain)}

Key(server, full_id) == <<server, MCH1[full_id] * MCMasterKey[server]>>
This(server) == Key(server, <<"this package", "this id">>)
Other(server) == Key(server, <<"this package", "other id">>)
Swapped == <<"a", This("b")[2]>>
SwappedBack == <<"b", This("a")[2]>>

MCHoldings ==
  {<<>>, <<This("b")>>, <<This("a"), This("b")>>, <<This("c"), This("b")>>,
   <<This("a"), This("b"), This("c")>>,
   <<Swapped, This("b")>>, <<Swapped, This("b"), This("c")>>,
   <<Swapped, This("a"), This("b")>>, <<This("a"), Swapped, This("b")>>,
   <<Swapped, SwappedBack>>,
   <<Other("a"), Other("b"), Other("c")>>}

MCPublicKeyLists ==
  {<<>>, <<Public(ABC)>>, <<Public(AAB)>>, <<Public(<<"c", "b", "a">>)>>, <<Public(<<"a", "b">>)>>}
=============================================================================
