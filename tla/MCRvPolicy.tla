----------------------------- MODULE MCRvPolicy -----------------------------
(* RvPolicy over paths of the segments "", "a", "ab" and "b", and documents *)
(* whose rules overlap: exact, prefix, and with segment wildcards.          *)
EXTENDS RvPolicy

MCLiteral == {"", "a", "ab", "b"}
MCSize == [s \in MCLiteral |-> CASE s = "" -> 0 [] s = "ab" -> 2 [] OTHER -> 1]
MCStartsWith ==
  {<<s, s>> : s \in MCLiteral} \cup {<<s, "">> : s \in MCLiteral} \cup {<<"ab", "a">>}

Rule(path, star, caps) ==
  [path |-> path, star |-> star, caps |-> caps, old |-> "none",
   allowed |-> NoParams, denied |-> NoParams, required |-> {}]

k(v) == [f \in {"k"} |-> v]

Base == Parsed({Rule(<<"a">>, TRUE, {"read"}),
                [Rule(<<"a", "b">>, FALSE, {"update"}) EXCEPT
                   !.allowed = [f \in {"*"} |-> {}]],
                Rule(<<"+", "">>, TRUE, {"deny", "read"})})
Wide == Parsed({Rule(<<"a", "+">>, FALSE, {"list", "sudo"}),
                [Rule(<<"a", "b">>, FALSE, {}) EXCEPT !.old = "write", !.allowed = k({"v"})]})
Deny == Parsed({Rule(<<"a", "b">>, FALSE, {"deny"}),
                Rule(<<"a", "">>, TRUE, {"update"})})
Deep == Parsed({Rule(<<"+", "a">>, TRUE, {"delete"}),
                Rule(<<"+", "+", "b">>, FALSE, {"read"}),
                Rule(<<"+", "ab">>, FALSE, {"read", "update"}),
                [Rule(<<"a", "b">>, FALSE, {"read", "create", "sudo"}) EXCEPT
                   !.denied = k({"v"}), !.required = {"k"}]})
MCDoc == {"base", "wide", "deny", "deep"}
MCText == [d \in MCDoc |->
  CASE d = "base" -> Base [] d = "wide" -> Wide [] d = "deny" -> Deny [] d = "deep" -> Deep]

Req(op, path, data) == [operation |-> op, path |-> path, data |-> data]
MCRequest ==
  {Req("write", <<"a", "b">>, k("v")), Req("write", <<"a", "b">>, k("u")),
   Req("read", <<"a", "b">>, NoParams), Req("read", <<"a", "ab">>, NoParams),
   Req("list", <<"a", "b", "">>, NoParams), Req("delete", <<"b", "a", "b">>, NoParams),
   Req("help", <<"b">>, NoParams), Req("renew", <<"a", "a">>, NoParams)}
MCRootPath == {<<"a", "b">>}
Symmetry == Permutations(Writers)
=============================================================================
