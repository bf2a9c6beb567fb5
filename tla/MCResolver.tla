------------------------------ MODULE MCResolver ------------------------------
(* Three packages with conflicts, a cycle among new versions, a prerelease,*)
(* two builds of one version and a row that cannot be read.  Any part of   *)
(* the rows is there when the request comes, and one more may be uploaded  *)
(* during the search.                                                      *)
EXTENDS Resolver

V(a, b, c)    == [major |-> a, minor |-> b, patch |-> c, pre |-> <<>>, build |-> 0]
Alpha(v)      == [v EXCEPT !.pre = << <<1, 0>> >>]
Built(v)      == [v EXCEPT !.build = 1]
Term(o, nums) == [op |-> o, parts |-> [i \in 1..Len(nums) |-> [num |-> nums[i], pre |-> <<>>]]]
Wish(n, ts)   == [name |-> n, wants |-> ts]
Row(n, v, ds) == [name |-> n, version |-> v, deps |-> ds]

PreTerm == [op |-> ">=", parts |-> <<[num |-> 2, pre |-> <<>>], [num |-> 0, pre |-> <<>>],
                                     [num |-> 0, pre |-> << <<1, 0>> >>]>>]

ThreeNames == {"app", "lib", "core"}

Unreadable == { Row("lib", V(1, 0, 1), <<Wish("core", {})>>) }

Table == Unreadable \cup
  { Row("app", V(1, 0, 0), <<Wish("lib", {Term("^", <<0, 2>>)})>>),
    Row("app", V(1, 1, 0), <<Wish("core", {}), Wish("lib", {Term(">=", <<0, 3>>)})>>),
    Row("app", Alpha(V(2, 0, 0)), <<Wish("lib", {Term("~", <<0, 2>>)})>>),
    Row("lib", V(0, 2, 1), <<>>),
    Row("lib", V(0, 3, 0), <<Wish("core", {Term("<", <<2>>)})>>),
    Row("lib", V(1, 0, 0), <<Wish("core", {Term("^", <<0, 0, 3>>)})>>),
    Row("lib", V(2, 0, 0), <<Wish("app", {})>>),
    Row("core", V(0, 0, 3), <<>>),
    Row("core", V(0, 1, 0), <<>>),
    Row("core", Built(V(0, 1, 0)), <<Wish("lib", {Term(">", <<0, 2>>)})>>) }

Pipelines ==
  { <<Wish("app", {})>>,
    <<Wish("app", {PreTerm}), Wish("lib", {})>>,
    <<Wish("core", {Term(">", <<0>>)}), Wish("app", {Term("^", <<1>>)})>>,
    <<Wish("lib", {Term("^", <<0, 2>>), Term("<=", <<2>>)}), Wish("core", {})>>,
    <<Wish("app", {}), Wish("lib", {Term("<", <<0, 3>>)})>> }
=============================================================================
