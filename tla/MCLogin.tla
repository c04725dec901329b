------------------------------ MODULE MCLogin -------------------------------
(***************************************************************************)
(* The instances of Login that TLC checks. A byte is 0..3 and a seed has   *)
(* two of them, so that issuers of four and five bytes wrap the length.    *)
(***************************************************************************)
EXTENDS Login

Bytes(n, b) == [i \in 1..n |-> b]

User(iss, sub, aud) == [iss |-> iss, sub |-> sub, aud |-> aud]

(* Two users of one client, a user of another client and one of another    *)
(* provider; an issuer that is too long and an audience that is.           *)
MCAccount ==
  {User(<<1>>, "sub 1", <<"a">>), User(<<1>>, "sub 2", <<"a">>),
   User(<<1>>, "sub 1", <<"x">>), User(<<1, 1>>, "sub 1", <<"a">>),
   User(Bytes(4, 1), "sub 1", <<"a">>), User(<<1>>, "sub 1", <<"a", "a">>)}

Form(parts, header, payload, decodes, aud, missing) ==
  [parts |-> parts, header |-> header, payload |-> payload, decodes |-> decodes,
   aud |-> aud, missing |-> missing]

(* At the limits of the lengths, with several audiences, and refused ones. *)
MCForms ==
  {Form(3, 2, 3, TRUE, "string", {}), Form(3, 1, 1, TRUE, "client first", {}),
   Form(3, 1, 1, TRUE, "client second", {}),
   Form(3, 3, 1, TRUE, "string", {}), Form(3, 1, 1, TRUE, "other", {}),
   Form(3, 1, 1, TRUE, "string", {"nonce"})}

MCFewForms == {Form(3, 2, 3, TRUE, "string", {}), Form(3, 1, 1, TRUE, "client first", {})}

(* Seeds with and without leading zeros, and zero itself. *)
MCAddressSeed ==
  [claim \in {"salt"} \X {"sub"} \X {"sub 1", "sub 2"} \X {<<"a">>, <<"x">>} |->
     CASE claim[3] = "sub 1" /\ claim[4] = <<"a">> -> 1
       [] claim[3] = "sub 1" /\ claim[4] = <<"x">> -> 4
       [] claim[3] = "sub 2" /\ claim[4] = <<"a">> -> 0
       [] claim[3] = "sub 2" /\ claim[4] = <<"x">> -> 15]

MCIssuers == {Bytes(n, b) : n \in 0..5, b \in {1, 3}} \cup {<<1, 3>>, <<3, 0>>}

MCSeeds == {<<a, b>> : a, b \in U8} \cup {<<1>>}
=============================================================================
