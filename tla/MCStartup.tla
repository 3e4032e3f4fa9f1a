----------------------------- MODULE MCStartup ------------------------------
(* Invocations for Startup. *)
EXTENDS Startup

A(n) == <<Address(n)>>
N(n) == <<Number(n)>>
W(w) == <<Word(w)>>

\* Lines of every kind; the last ones are refused, with or without a header above them.
Lines == {
  <<A(1)>>, <<A(2) \o W(":") \o N(3)>>, <<A(1), N(2)>>, <<A(3), <<>> >>,
  <<A(5) \o W("/") \o N(1)>>, <<A(6) \o W("#") \o A(7)>>, <<W("#") \o A(4), N(1)>>, << <<>> >>,
  <<W("ip"), W("port")>>, <<W("note"), W("ip")>>, <<W("ip"), W("note"), W("c2_port")>>,
  <<A(2), W("web"), N(3)>>, <<A(2), W("web") \o W("#")>>,
  <<A(1), N(0)>>, <<A(1), W("day") \o W("/") \o W("month")>>, <<A(0) \o W("/") \o N(4)>> }
Arguments == {<<A(1)>>, <<A(2) \o W(":") \o N(1)>>, <<A(4), N(3)>>, <<A(6) \o W("/") \o N(2)>>}

Source(from, lines, ended) == [from |-> from, lines |-> lines, ended |-> ended]
Argument(said) == Source("argument", <<said>>, TRUE)
Texts == {<<one>> : one \in Lines} \cup (Lines \X Lines)
Firsts == {Source("file", t, ended) : t \in Texts, ended \in BOOLEAN}
          \cup {Source("stdin", t, TRUE) : t \in Texts}
Cut == {Source("stdin", t, FALSE) : t \in Texts} \cup {Source("stdin", <<>>, TRUE)}

Seconds == {<<>>} \cup {<<Argument(a)>> : a \in Arguments}
OnHome(name) == [dir |-> "home", name |-> <<name>>]
CommandLine(sources) ==
  IF sources # <<>> /\ sources[1].from = "file" THEN [input |-> OnHome("a")] ELSE [rate |-> 9]

Lists(firsts) ==
  {[cli |-> CommandLine(sources), file |-> file, sources |-> sources] :
     sources \in {<<first>> \o second : first \in firsts, second \in Seconds},
     file \in {[known |-> ""], [known |-> "port"]}}
\* The standard input named twice, first and last.
Twice ==
  {[cli |-> [rate |-> 9], file |-> [burst |-> 9], sources |-> <<s, Argument(a), s>>] :
     s \in Cut, a \in Arguments}

-----------------------------------------------------------------------------
Block == Source("file", <<<<A(4) \o W("/") \o N(1)>>>>, TRUE)
Names2 == {"a", "b", "link", "loose"}
Paths == {[dir |-> d, name |-> <<n>>] : d \in {"home", ".", "other"}, n \in Names2}
         \cup {[dir |-> "gone", name |-> <<"b">>], [dir |-> ".", name |-> <<"b", "mp.state">>]}

MCDirs == {"home", "other", "parts"}
MCDirLinks == "." :> "home"
MCFiles == {OnHome("a")}
MCLinks == OnHome("link") :> OnHome("a") @@ OnHome("loose") :> OnHome("b")

Files2 ==
  {[cli |-> (role :> p) @@ extra @@ [input |-> OnHome("a"), processes |-> n],
    file |-> [output |-> q, rate |-> 5], sources |-> <<Block>>] :
     role \in Roles \ {"output"}, p \in Paths, q \in Paths, n \in 1 .. 2,
     extra \in {[burst |-> 6], [checkpoint |-> OnHome("c")]}}

-----------------------------------------------------------------------------
Shares ==
  {[cli |-> (option :> m) @@ [input |-> OnHome("a"), processes |-> n],
    file |-> [rate |-> 9, host_concurrency |-> 5, mode |-> "syn"], sources |-> <<Block>>] :
     option \in Positive \ {"processes"}, m \in 0 .. 7, n \in 0 .. 5}
Refusals ==
  {[cli |-> [input |-> OnHome("a")], file |-> f, sources |-> <<Block>>] :
     f \in {[http |-> FALSE], [http |-> FALSE, https |-> FALSE], [ports |-> <<>>],
            [ports |-> <<[from |-> 2, to |-> 3], [from |-> 4, to |-> 4]>>],
            [ports |-> <<[from |-> 0, to |-> 3]>>], [ports |-> <<[from |-> 3, to |-> 2]>>]}}

MCInvocations == Lists(Firsts \cup Cut) \cup Twice \cup Files2 \cup Shares \cup Refusals
MergeInvocations == Lists(Firsts \cup Cut)
=============================================================================
