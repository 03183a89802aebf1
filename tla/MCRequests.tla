----------------------------- MODULE MCRequests -----------------------------
(* The requests that TLC sends: every short command, and every project made *)
(* of a few files with a few contents each.                                 *)
EXTENDS Requests, TLC, SequencesExt

CONSTANT MaxCommand   \* bound: the length of a command

Commands == UNION {[1..n -> Token] : n \in 0..MaxCommand}

(* Contents.                                                               *)

Code(fns, has) == [bytes |-> "long", words |-> {}, headings |-> {}, has |-> has, fns |-> fns]

VoteFn == [name |-> "vote", params |-> <<"env", "choice">>]
CountFn == [name |-> "get_count", params |-> <<"env">>]
FeeFn == [name |-> "set_fee", params |-> <<"_env", "fee">>]
TestFn == [name |-> "test_vote", params |-> <<>>]
HelloFn == [name |-> "hello", params |-> <<"env", "to">>]

Voting == Code(<<VoteFn, CountFn, TestFn, VoteFn>>, {})
Counting == Code(<<CountFn, FeeFn>>, {"symbol::new"})
Hello == Code(<<HelloFn>>, {"fn hello(", "pub fn hello"})
Testing == Code(<<TestFn>>, {})
Client == Code(<<>>, {"sdk"})
Picture == Code(<<>>, {})

Headings == {"description", "vision", "feature", "contract", "future", "screenshot", "setup"}
Readme(words, headings, has) ==
  [bytes |-> "long", words |-> words, headings |-> headings, has |-> has, fns |-> <<>>]

Hash == {"title", "contract id", "image"}
Full == Readme({"a", "b", "c", "d"}, Headings, Hash)
\* Three of its four words are those of a template, and then four of five.
NearTemplate == Readme({"t", "u", "v", "d"}, Headings, Hash)
CopiedTemplate == Readme({"t", "u", "v", "w", "d"}, Headings, Hash)
NoSetup == Readme({"a"}, Headings \ {"setup"}, Hash)
MCTemplates == {Readme({"t", "u", "v", "w"}, {}, {}), Readme({"h", "i"}, {}, {})}

(* Projects.                                                               *)

MCTree ==
  << << <<"contracts", "vote", "src", "lib.rs">>, {Voting, Counting, Hello} >>,
     << <<"contracts", "hello-world", "src", "mylib.rs">>, {Counting} >>,
     << <<"contracts", "vote", "tests", "lib.rs">>, {Hello} >>,
     << <<"contracts", "vote", "src", "test.rs">>, {Testing} >>,
     << <<"README.md">>, {Full, NearTemplate, CopiedTemplate} >>,
     << <<"web", "readme.md">>, {NoSetup} >>,
     << <<"web", "package.json">>, {Client} >>,
     << <<"web", "logo.png">>, {Picture} >> >>

\* Every file is absent, or has one of its contents.
MCFiles ==
  FoldLeft(LAMBDA fs, choice : fs \cup {(choice[1] :> c) @@ f : c \in choice[2], f \in fs},
           {<<>>}, MCTree)

Named == [generic |-> FALSE, length |-> 5]
MCNames == {Named, [generic |-> FALSE, length |-> 4], [generic |-> TRUE, length |-> 7]}

MCProjects ==
  [command : {<<>>}, files : MCFiles, category : {"full-stack", "other"}, repoName : {Named},
   contractPath : {<<>>, <<"contracts", "vote">>, <<"contracts", "vote", "">>}]
  \cup
  [command : {<<"blank">>}, files : {<<>>}, category : {"ec-level"}, repoName : MCNames,
   contractPath : {<<"contracts">>}]

MCCommands ==
  [command : Commands, files : {<<>>}, category : {"ec-level"}, repoName : {Named},
   contractPath : {<<>>}]

MCInputs == MCProjects \cup MCCommands
=============================================================================
