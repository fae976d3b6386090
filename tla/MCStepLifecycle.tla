-------------------------- MODULE MCStepLifecycle --------------------------
(* Lifecycles for TLC, and what is claimed of the specification of a       *)
(* container for all small steps and templates.                            *)
EXTENDS StepLifecycle, TLC, FiniteSets, Functions

AnyTimer == {"none", "armed"}
NoTimer == {"none"}
AnyGrace == BOOLEAN
Grace == {TRUE}
AnyDriver == {"docker", "kubernetes"}
Docker == {"docker"}
AnyAwait == {"Exit", "Ready"}
AwaitExit == {"Exit"}
Missing == {"Missing"}
Untagged == [repository |-> "app", tag |-> ""]
Tagged == [repository |-> "app", tag |-> "latest"]

Names == {"data", "cache"}
Volumes(from) == {<<>>} \cup {<<[name |-> n, from |-> from]>> : n \in Names}
Options(from) ==
    [command : {<<>>, <<from>>}, args : {<<>>, <<from>>}, pwd : {<<>>, <<from>>},
     image : {<<>>, <<from>>}, uid : {0, 1}, guid : {0, 2}, volumes : Volumes(from)]
Scripts == {NoScript, [kind |-> "body", interpreter |-> "", body |-> "x"],
            [kind |-> "shebang", interpreter |-> "awk", body |-> "x"]}
Runs == {[o EXCEPT !.pwd = <<>>] @@ [script |-> s] : o \in Options("step"), s \in Scripts}

\* Whatever the step says itself stands, and the template fills in the rest,
\* once per volume.  A user is excepted: the group of the template replaces it
\* (run.go:207-210).
ASSUME TemplateAssumption ==
    \A step \in Options("step"), template \in Options("template") :
        LET c == ContainerSpec(step, template)
        IN  /\ \A f \in {"command", "args", "pwd", "image"} :
                  c[f] = IF step[f] # <<>> THEN step[f] ELSE template[f]
            /\ \A n \in Names :
                  Cardinality({i \in DOMAIN c.volumes : c.volumes[i].name = n}) =
                      Cardinality({v.name : v \in {w \in Range(step.volumes \o template.volumes) : w.name = n}})
            /\ Range(step.volumes) \subseteq Range(c.volumes)
            /\ step.uid # 0 /\ (template.guid = 0 \/ step.guid # 0) => c.uid = step.uid

\* A script is the last argument of a shell that stops at its first failure,
\* and the step's own arguments come before it; without a script nothing is
\* added to what the step says.
ASSUME ScriptAssumption ==
    \A asked \in Runs :
        LET c == Container(asked)
        IN  IF asked.script.kind = "none" THEN c.command = asked.command /\ c.args = asked.args
            ELSE /\ c.command # <<>>
                 /\ c.args = asked.args \o <<"-e", "-c", asked.script.body>>

\* Substitution ends if no variable that a text mentions, escaped or not, leads
\* back to itself.  If one does it may not: a value that mentions itself grows.
Ref(n) == Piece("ref", n)
Texts == {<<>>, <<Piece("text", "x")>>, <<Ref("a")>>, <<Ref("b"), Ref("a")>>, <<Piece("escape", "b")>>, <<Ref("unknown")>>}
Mentions(values, n) == {p.name : p \in Range(values[n])} \cap DOMAIN values
Acyclic(values) == /\ "a" \notin Mentions(values, "a") /\ "b" \notin Mentions(values, "b")
                 /\ ~("b" \in Mentions(values, "a") /\ "a" \in Mentions(values, "b"))
ASSUME SubstitutionAssumption ==
    /\ \A values \in [{"a", "b"} -> Texts], text \in Texts :
          Acyclic(values) => Settled(Passes(text, values, 5), values)
    /\ LET values == "a" :> <<Piece("text", "x"), Ref("a")>>
       IN  \A n \in 1..4 : Len(Passes(<<Ref("a")>>, values, n)) = n + 1

\* With the policy "Missing" what is not there is always pulled, and what is
\* there is not, unless its name has no tag (docker.go:325).
ASSUME PullAssumption ==
    \A image \in {Untagged, Tagged} : \A images0 \in SUBSET {Tagged} :
        /\ FullName(image) \notin images0 => Pulls("Missing", images0, image)
        /\ Pulls("Missing", images0, image) => FullName(image) \notin images0 \/ image.tag = ""

\* Under kubernetes a group that the step gives needs a user, of its own or of
\* the template; a group of the template never gets there.
ASSUME GroupAssumption ==
    \A step \in Options("step"), template \in Options("template") :
        SpecPanics(ContainerSpec(step, template)) <=> step.guid # 0 /\ step.uid = 0 /\ template.uid = 0
=============================================================================
