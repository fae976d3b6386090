----------------------------- MODULE MCStepChain -----------------------------
(* Pipelines for TLC.                                                       *)
EXTENDS StepChain

\* A sequence in a sequence: its steps publish, declare and retry.
Sequence == [main |-> [Group EXCEPT !.and = <<"b", "p">>, !.env = {"X"}, !.soft = TRUE],
             b |-> [Plain EXCEPT !.env = {"Y"}, !.publishes = {"Z"}, !.redirect = {"stdout"}],
             p |-> [Group EXCEPT !.and = <<"c", "d">>, !.inputs = {"I"}, !.secret = {"S"}],
             c |-> [Plain EXCEPT !.env = {"Z"}, !.cond = TRUE, !.image = "c"],
             d |-> [Plain EXCEPT !.blacklisted = FALSE, !.soft = TRUE, !.image = "d"]]

\* A step that publishes, and retries, before another.
Again == [main |-> [Group EXCEPT !.and = <<"b", "c">>],
          b |-> [Plain EXCEPT !.env = {"Y"}, !.publishes = {"Z"}, !.retry = 1],
          c |-> [Plain EXCEPT !.env = {"Z"}, !.retry = 1]]

\* A matrix step after a step with outputs; its instances are sequences.
Expansion == [main |-> [Group EXCEPT !.and = <<"b", "m">>],
              b |-> [Plain EXCEPT !.outputs = {"O"}],
              m |-> [Group EXCEPT !.and = <<"c", "d">>, !.matrix = {"1", "2"}],
              c |-> [Plain EXCEPT !.outputs = {"P"}],
              d |-> Plain]

\* Two steps at the same time, one of them an inherited pipeline.
Together == [main |-> [Group EXCEPT !.concurrent = <<"b", "i">>, !.env = {"X"}],
             b |-> [Plain EXCEPT !.env = {"Y"}, !.publishes = {"Z"}],
             i |-> [Group EXCEPT !.inherit = "e", !.inputs = {"I"}],
             e |-> [Group EXCEPT !.and = <<"f", "g">>, !.inputs = {"J"}],
             f |-> [Plain EXCEPT !.outputs = {"O"}],
             g |-> [Plain EXCEPT !.blacklisted = TRUE]]

\* Instances of a matrix that each inherit.
Nested == [main |-> [Group EXCEPT !.inherit = "e", !.matrix = {"1", "2"}],
           e |-> [Plain EXCEPT !.redirect = {"stderr"}]]

\* A needed step that was run, and one that was not.
Needed == [main |-> [Group EXCEPT !.and = <<"b", "c">>],
           b |-> Plain,
           c |-> [Plain EXCEPT !.needs = <<"b", "d">>, !.soft = TRUE],
           d |-> [Group EXCEPT !.inputs = {"I"}]]

\* The needed step wants a context.Context, or everything was run before.
NeededOthers ==
    {[Needed EXCEPT !.d = Plain],
     [Needed EXCEPT !.d = [Group EXCEPT !.concurrent = <<"b">>]],
     [Needed EXCEPT !.d = [Plain EXCEPT !.matrix = {"1"}]],
     [Needed EXCEPT !.c.needs = <<"b">>]}

\* Goroutines of goroutines, after a step with outputs.
Fan == [main |-> [Group EXCEPT !.and = <<"b", "k">>, !.secret = {"S"}],
        b |-> [Plain EXCEPT !.outputs = {"O"}],
        k |-> [Group EXCEPT !.concurrent = <<"c", "m">>],
        c |-> Plain,
        m |-> [Group EXCEPT !.matrix = {"1", "2"}, !.env = {"Y"}]]

\* What an attempt leaves behind: a step that publishes, in a sequence that retries.
Left == [main |-> [Group EXCEPT !.and = <<"m">>],
         m |-> [Plain EXCEPT !.and = <<"b">>, !.retry = 1, !.publishes = {"Z"}],
         b |-> [Plain EXCEPT !.env = {"Y"}]]

\* A step that redirects both streams, retries and may fail, before another.
Redirected == [main |-> [Group EXCEPT !.and = <<"b", "c">>],
               b |-> [Plain EXCEPT !.redirect = {"stdout", "stderr"}, !.retry = 1, !.soft = TRUE],
               c |-> [Plain EXCEPT !.redirect = {"stdout"}]]

\* The outermost step is a matrix: its instances share a template.
Outermost == [main |-> [Group EXCEPT !.and = <<"m">>, !.matrix = {"1", "2"}],
              m |-> [Plain EXCEPT !.image = "m"]]

\* An instance goes on after a step that has taken its namespace.
Unnamed == [main |-> [Group EXCEPT !.and = <<"b", "i">>, !.matrix = {"1", "2"}],
            b |-> Group,
            i |-> [Group EXCEPT !.inherit = "e"],
            e |-> Plain]

AllPrograms == {Sequence, Again, Expansion, Together, Nested, Fan, Needed, Left, Redirected, Outermost, Unnamed}
                 \cup NeededOthers
=============================================================================
