------------------------------ MODULE PodSpec ------------------------------
(***************************************************************************)
(* How Run (internal/processor/run.go) makes the specification of a        *)
(* container out of a step and the template in force, the expressions that *)
(* are substituted in it (internal/substitute), and what the drivers make  *)
(* of it: when the image is pulled, and which user it takes.               *)
(*                                                                         *)
(* A text is a sequence of pieces: [kind |-> "text"], an expression        *)
(* $(name) of kind "ref", or an escaped one $$(name) of kind "escape".     *)
(* Expressions that only come about when pieces are put together are left  *)
(* out.  0 stands for a user or a group that is not set, <<>> for an empty *)
(* value.                                                                  *)
(***************************************************************************)
EXTENDS Naturals, SequencesExt

Piece(kind, name) == [kind |-> kind, name |-> name]

\* The script of a step: none, a body, or a body below the line "#!interpreter".
NoScript == [kind |-> "none", interpreter |-> "", body |-> ""]
DefaultShell == <<"/bin/sh">>

-----------------------------------------------------------------------------
CommandArgs(run) ==
    LET args == run.args \o <<"-e", "-c", run.script.body>>
        shell == IF run.command = <<>> THEN DefaultShell ELSE run.command
    IN  CASE run.script.kind = "none" -> [command |-> run.command, args |-> run.args]
          [] run.script.kind = "shebang" -> [command |-> <<run.script.interpreter>>, args |-> args]
          [] run.script.kind = "body" -> [command |-> shell, args |-> args]

\* What the step leaves empty comes from the template.
OrTemplate(value, other) == IF value = <<>> THEN other ELSE value

\* A user comes from the template if the step has none, and so does a group:
\* it becomes the user.
UserOf(container, template) ==
    IF container.guid = 0 /\ template.guid # 0 THEN template.guid
    ELSE IF container.uid = 0 THEN template.uid ELSE container.uid

\* The volumes of the template whose names are not taken.
WithVolumes(volumes, more) ==
    FoldLeft(LAMBDA all, v : IF \E i \in DOMAIN all : all[i].name = v.name
                             THEN all ELSE Append(all, v), volumes, more)

ContainerSpec(container, template) ==
    [container EXCEPT
        !.args = OrTemplate(@, template.args),
        !.command = OrTemplate(@, template.command),
        !.pwd = OrTemplate(@, template.pwd),
        !.image = OrTemplate(@, template.image),
        !.uid = UserOf(container, template),
        !.volumes = WithVolumes(@, template.volumes)]

\* What the step asks for by itself.
Container(run) ==
    [command |-> CommandArgs(run).command, args |-> CommandArgs(run).args,
     pwd |-> run.pwd, image |-> run.image, uid |-> run.uid, guid |-> run.guid,
     volumes |-> run.volumes]

-----------------------------------------------------------------------------
(* Substitution.                                                           *)

\* One pass: a variable that is not known stays, an escape loses its second $.
Replaced(piece, vars) ==
    CASE piece.kind = "escape" -> <<Piece("ref", piece.name)>>
      [] piece.kind = "ref" /\ piece.name \in DOMAIN vars -> vars[piece.name]
      [] OTHER -> <<piece>>

Pass(text, vars) == FlattenSeq([i \in DOMAIN text |-> Replaced(text[i], vars)])

Passes(text, vars, n) == FoldLeft(LAMBDA t, i : Pass(t, vars), text, [i \in 1..n |-> i])

\* parseExpression makes passes until one changes nothing.
Settled(text, vars) == Pass(text, vars) = text

-----------------------------------------------------------------------------
(* The drivers.                                                            *)

\* kubernetes: the group is written to a security context that only a user
\* brings about; without it the step panics.
SpecPanics(container) == container.guid # 0 /\ container.uid = 0

\* The daemon keeps images under their full names.
FullName(image) == IF image.tag = "" THEN [image EXCEPT !.tag = "latest"] ELSE image

HasImage(images, image) == image \in images

\* Whether CreatePod pulls the image first.
Pulls(policy, images, image) ==
    \/ policy = "Always"
    \/ policy = "Missing" /\ ~HasImage(images, image)

=============================================================================
