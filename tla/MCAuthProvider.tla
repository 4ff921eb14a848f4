--------------------------- MODULE MCAuthProvider ---------------------------
(***************************************************************************)
(* Sections of up to three entries, drawn from entries that collide on     *)
(* hosts in every way: named twice, in two Secrets, in a Secret and by     *)
(* name, dynamic with and without a loader, malformed.                     *)
(***************************************************************************)
EXTENDS AuthProvider, TLC

Hub == "https://index.docker.io/v1/"
MCHosts == {Hub, "a", "c", "d"}
MCCloudOf == (Hub :> "none") @@ ("a" :> "none") @@ ("c" :> "acr") @@ ("d" :> "ecr")
MCSecretHosts == ("s" :> {Hub, "a"}) @@ ("t" :> {"a", "c"})
MCRequestHosts == {"registry-1.docker.io", "a"}

None == [username |-> FALSE, password |-> FALSE, secretName |-> "", secretNamespace |-> FALSE]
Inline == [None EXCEPT !.username = TRUE, !.password = TRUE]
Secret(s) == [None EXCEPT !.secretName = s, !.secretNamespace = TRUE]
Both == [Secret("s") EXCEPT !.username = TRUE, !.password = TRUE]
Half == [None EXCEPT !.username = TRUE]

Plain(h, b) == [server |-> h, basicAuth |-> b, dynamic |-> FALSE, nonSSL |-> FALSE]

WellFormed ==
  {Plain("a", Inline), Plain(Hub, Inline), Plain("a", Secret("s")), Plain("c", Secret("t")),
   Plain("c", Secret("s")), [Plain("a", None) EXCEPT !.nonSSL = TRUE],
   [Plain("c", None) EXCEPT !.dynamic = TRUE], [Plain("c", Inline) EXCEPT !.dynamic = TRUE],
   [Plain("d", None) EXCEPT !.dynamic = TRUE]}

Malformed == {Plain("a", Both), Plain("a", Half)}

MCSpecs ==
  UNION {[1..n -> WellFormed] : n \in 0..3} \cup UNION {[1..n -> WellFormed \cup Malformed] : n \in 1..2}
MCEdits == {<<[Plain("c", None) EXCEPT !.dynamic = TRUE]>>}
=============================================================================
