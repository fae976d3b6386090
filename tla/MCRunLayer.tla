----------------------------- MODULE MCRunLayer -----------------------------
(* Command lines for TLC.                                                  *)
EXTENDS RunLayer

CONSTANTS s1, s2

Steps12 == {s1, s2}
Keys == [s \in Steps12 |-> IF s = s1 THEN 2 ELSE 1]

Plain == [skipSummary |-> FALSE, collect |-> FALSE, report |-> TRUE, fork |-> FALSE,
          retries |-> 0, ui |-> FALSE, goroutines |-> FALSE, fault |-> "none", env |-> "default", profile |-> "default",
          changed |-> {}, params |-> <<>>, given |-> <<>>, flags |-> <<>>]

(* One thing out of the ordinary at a time, or two that may meet.          *)
Faults == {[Plain EXCEPT !.fault = p, !.skipSummary = b] : p \in Fallible, b \in BOOLEAN}
Flows == {[Plain EXCEPT !.skipSummary = a, !.collect = a, !.retries = r] :
             a \in BOOLEAN, r \in 0 .. MaxRetries}
LeftBehind == {[Plain EXCEPT !.goroutines = TRUE]}
Forks == {[Plain EXCEPT !.fork = TRUE]}
Profiles == {[Plain EXCEPT !.report = FALSE, !.env = e, !.profile = p, !.changed = c] :
                e \in {"default", "github-actions"}, p \in {"debug", "default"},
                c \in {{}, {"report"}}}

(* One parameter of every kind, with every default or given in every way.  *)
Defaults == {NoDefault, Value("string", <<"word">>), Value("array", <<"array">>)}
Types == {[type |-> t, properties |-> FALSE] : t \in {"", "string", "array"}}
             \cup {[type |-> "", properties |-> TRUE]}
Asked(t, d) == [name |-> "p", type |-> t.type, properties |-> t.properties, default |-> d]
Nothing == [n \in {} |-> <<>>]
Given == {[n \in {"p"} |-> <<t>>] : t \in Text}
             \cup {[n \in {"p"} |-> <<"word", "word">>], [n \in {"q"} |-> <<"word">>]}
Request(t, d, given, flags) ==
    [Plain EXCEPT !.report = FALSE, !.params = <<Asked(t, d)>>, !.given = given, !.flags = flags]
Requests == {Request(t, d, Nothing, <<>>) : t \in Types, d \in Defaults}
            \cup {Request(t, NoDefault, g, <<>>) : t \in Types, g \in Given}
            \cup {Request(t, NoDefault, [n \in {"p"} |-> <<"array">>], [n \in {"p"} |-> "word"]) : t \in Types}

(* With the user interface, and with the profiles that turn it off.        *)
Interfaces == {[Plain EXCEPT !.ui = TRUE, !.report = FALSE, !.retries = MaxRetries],
               [Plain EXCEPT !.ui = TRUE, !.report = FALSE, !.goroutines = TRUE]}
              \cup {[Plain EXCEPT !.ui = TRUE, !.report = FALSE, !.changed = {"report"},
                                  !.env = p[1], !.profile = p[2]] :
                       p \in {<<"github-actions", "default">>, <<"default", "github-actions">>}}

CommandLines == Faults \cup Flows \cup LeftBehind \cup Forks \cup Profiles
                    \cup Requests \cup Interfaces
=============================================================================
