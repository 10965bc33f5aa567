---------------------------- MODULE MCForwardEngine ----------------------------
(***************************************************************************)
(* Small instances of ForwardEngine: two clients asking about one or two   *)
(* names, two or three upstream servers.                                   *)
(***************************************************************************)
EXTENDS ForwardEngine

Req(source, orig_id, question, flags) ==
  [source |-> source, orig_id |-> orig_id, question |-> question, flags |-> flags]

Server(addr, domain, uid) == [addr |-> addr, domain |-> domain, uid |-> uid]

Names == [q1 |-> <<"www", "lan">>, q2 |-> <<"www", "org">>]

\* Two clients ask q1 plainly, the second also with DO set; a third question.
ReqsOne   == {Req("c1", 1, "q1", "plain")}
ReqsDup   == {Req("c1", 1, "q1", "plain"), Req("c2", 1, "q1", "plain")}
ReqsThree == ReqsDup \cup {Req("c1", 2, "q2", "plain")}
ReqsMixed == {Req("c1", 1, "q1", "plain"), Req("c2", 1, "q1", "plain"), Req("c2", 2, "q1", "do"),
              Req("c1", 2, "q2", "plain")}

\* Server lists: two general servers, or servers bound to domains.
TwoServers == <<Server("s1", <<>>, 1), Server("s2", <<>>, 2)>>
Swapped    == <<Server("s2", <<>>, 2), Server("s1", <<>>, 1)>>
Scoped     == <<Server("s1", <<>>, 1), Server("s2", <<"lan">>, 2), Server("s3", <<"lan">>, 3)>>
Rescoped   == <<Server("s3", <<"www", "lan">>, 3), Server("s2", <<>>, 2)>>

AllServers == [addr : {"s1", "s2", "s3"}, domain : {<<>>, <<"lan">>, <<"www", "lan">>}, uid : 1 .. 3]

\* Transaction ids are interchangeable: the code only compares them.
IdSymmetry == Permutations(Ids)

Same       == {TwoServers}
Reloads    == {TwoServers, Swapped}
Shrinks    == {Scoped, Rescoped}
===============================================================================
