----------------------------- MODULE CommandLine -----------------------------
(***************************************************************************)
(* The command of a POST /run: its check in the handler (validateCommand   *)
(* in internal/handler/run.go), and its split into the arguments of docker *)
(* exec in the executor (splitArgs in internal/executor/docker.go). They   *)
(* scan the same text, each with its own idea of quotes and of blanks.     *)
(*                                                                         *)
(* A command is a sequence of tokens: "name" is the name of an allowed     *)
(* program in any case (stellar, soroban, cargo, git), ";" stands for each *)
(* metacharacter that is refused alone (; | > < $ and brackets), "&" is    *)
(* refused only when doubled, "x" is any other character.                  *)
(***************************************************************************)
EXTENDS Naturals, Sequences, FiniteSets, FiniteSetsExt

White == {"blank", "tab"}
Token == {"name", "x", "quote", ";", "&"} \cup White

\* What POST /run, and Execute, run when no command is given: stellar contract build.
DefaultCommand == <<"name", "blank", "x", "blank", "x">>

TrimSpace(s) ==
  LET text == {i \in DOMAIN s : s[i] \notin White}
  IN IF text = {} THEN <<>> ELSE SubSeq(s, Min(text), Max(text))

\* The first word of s, which does not start with a white character.
FirstField(s) ==
  LET ends == {i \in DOMAIN s : s[i] \in White}
  IN IF ends = {} THEN s ELSE SubSeq(s, 1, Min(ends) - 1)

InQuote(s, i) == Cardinality({k \in 1..i : s[k] = "quote"}) % 2 = 1

Dangerous(s, i) ==
  \/ s[i] = ";"
  \/ s[i] = "&" /\ i < Len(s) /\ s[i + 1] = "&"

\* The reason to refuse the command, "" if there is none, in the code's order.
validateCommand(command) ==
  LET s == TrimSpace(command)
      refused == \E i \in DOMAIN s : Dangerous(s, i) /\ ~InQuote(s, i)
  IN CASE s = <<>> -> "no command"
       [] s # <<>> /\ refused -> "syntax error"
       [] s # <<>> /\ ~refused /\ FirstField(s) # <<"name">> -> "not found"
       [] OTHER -> ""

Flush(scan) ==
  IF scan.cur = <<>> THEN scan
  ELSE [args |-> Append(scan.args, scan.cur), cur |-> <<>>, inQuote |-> scan.inQuote]

\* Mutant: a blank ends an argument in quotes, too.
SplitStepAnywhere(scan, c) ==
  CASE c = "quote" -> [scan EXCEPT !.inQuote = ~@]
    [] c = "blank" -> Flush(scan)
    [] OTHER -> [scan EXCEPT !.cur = Append(@, c)]

SplitStep(scan, c) ==
  CASE c = "quote" -> [scan EXCEPT !.inQuote = ~@]
    [] c = "blank" /\ ~scan.inQuote -> Flush(scan)
    [] OTHER -> [scan EXCEPT !.cur = Append(@, c)]

\* The state of the loop of splitArgs after each character.
Scan(s) ==
  LET scan[i \in 0..Len(s)] ==
        IF i = 0 THEN [args |-> <<>>, cur |-> <<>>, inQuote |-> FALSE]
        ELSE SplitStep(scan[i - 1], s[i])
  IN scan

\* An argument ends at a blank outside quotes, and exists if a character is left of it.
splitArgs(s) == Flush(Scan(s)[Len(s)]).args
-----------------------------------------------------------------------------
(* The reference: which characters of s belong to an argument, which of     *)
(* them are the first of one, and where in the arguments each of them goes. *)

Separator(s, i) == s[i] = "blank" /\ ~InQuote(s, i)

ArgChars(s) == {i \in DOMAIN s : s[i] # "quote" /\ ~Separator(s, i)}

ArgStarts(s) ==
  {i \in ArgChars(s) : \A k \in ArgChars(s) : k < i => \E m \in k..i : Separator(s, m)}

ArgOf(s, i) == Cardinality({k \in ArgStarts(s) : k <= i})

PlaceOf(s, i) == Cardinality({k \in ArgChars(s) : k <= i /\ ArgOf(s, k) = ArgOf(s, i)})

\* args are the arguments of s: as many, as long, and with each character in its place.
ArgsOf(args, s) ==
  /\ Len(args) = Cardinality(ArgStarts(s))
  /\ \A n \in 1..Len(args) :
       Len(args[n]) = Cardinality({i \in ArgChars(s) : ArgOf(s, i) = n})
  /\ \A i \in ArgChars(s) : args[ArgOf(s, i)][PlaceOf(s, i)] = s[i]
=============================================================================
