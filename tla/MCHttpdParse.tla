---------------------------- MODULE MCHttpdParse ----------------------------
(***************************************************************************)
(* Small connections for TLC: blocks shorter than a request's parts, a       *)
(* scratch buffer that some requests just fit and some do not.               *)
(***************************************************************************)
EXTENDS HttpdParse

Request(url, values, body, refuse) ==
  [url |-> url, values |-> values, body |-> body, refuse |-> refuse]

Some3 == {Request(1, v, b, "no") : v \in {<<0>>, <<0, 2>>, <<3>>}, b \in {0, 1, 3}}
          \cup {Request(4, <<1>>, 0, "no"), Request(3, <<4>>, 2, "no"), Request(1, <<5>>, 0, "no"), Request(1, <<4>>, 0, "no")}
          \cup {Request(2, <<1>>, 1, refuse) : refuse \in {"url", "syntax", "upgrade"}}
Lengths == {1, 4}
Either  == BOOLEAN
=============================================================================
