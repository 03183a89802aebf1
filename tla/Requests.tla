------------------------------ MODULE Requests ------------------------------
(***************************************************************************)
(* A client with a project sends it to the handlers that read their        *)
(* request and change nothing: POST /validate/project and POST             *)
(* /contract/interface, each any number of times, and POST /run up to the  *)
(* job's arguments (module RunWorkspace has what it does to the disk).     *)
(***************************************************************************)
EXTENDS CommandLine, ProjectFiles

CONSTANTS
  Inputs,     \* the requests' bodies: command, files, contractPath, category, repoName
  Templates,  \* the contents of the two READMEs that main reads at the start
  NoAnswer,
  MaxAnswers  \* bound: how many different answers a client collects of one handler

\* A file is a path and a content; the path of a crate is <<>> if none is named.
ASSUME Assumptions ==
  \A r \in Inputs :
    /\ r.command \in Seq(Token)
    /\ r.contractPath \in Seq(STRING) \ {<<"">>}
    /\ IsFiniteSet(DOMAIN r.files)
    /\ \A p \in DOMAIN r.files :
         /\ p \in Seq(STRING) \ {<<>>}
         /\ r.files[p].fns \in Seq([name : STRING, params : Seq(STRING)])

VARIABLES
  input,     \* what the client sends
  ran,       \* the answer to POST /run, with the arguments of the job's command
  verdicts,  \* the answers to POST /validate/project so far
  listings   \* the answers to POST /contract/interface so far

vars == <<input, ran, verdicts, listings>>

Category == {"ec-level", "full-stack"}
Status == {"valid", "invalid"}

TypeOK ==
  /\ input \in Inputs
  /\ ran = NoAnswer \/ ran.status \in {202, 400}
  /\ \A v \in verdicts : v.category \in Category /\ v.status \in Status
  /\ \A l \in listings : \A i \in DOMAIN l : l[i].category \in {"read", "write", "unknown"}

Init ==
  /\ input \in Inputs
  /\ ran = NoAnswer
  /\ verdicts = {} /\ listings = {}
-----------------------------------------------------------------------------
\* The extensions that POST /run refuses; a file over 1 MB is refused too.
Refused(files) ==
  \E p \in DOMAIN files : Last(p) = "logo.png" \/ files[p].bytes = "huge"

Given == IF TrimSpace(input.command) = <<>> THEN DefaultCommand ELSE TrimSpace(input.command)

\* sanitizeCommand is left out: it changes npm commands only, which are refused before it.
Run ==
  /\ ran = NoAnswer
  /\ ran' = IF Refused(input.files) THEN [status |-> 400, argv |-> <<>>]
            ELSE IF validateCommand(Given) # "" THEN [status |-> 400, argv |-> <<>>]
            ELSE [status |-> 202, argv |-> splitArgs(Given)]
  /\ UNCHANGED <<input, verdicts, listings>>

\* Mutant: answers with the category as it was sent.
ValidateRaw ==
  /\ Cardinality(verdicts) < MaxAnswers
  /\ \E readme \in IF Readmes(input.files) = {} THEN {Empty}
                   ELSE {input.files[p] : p \in Readmes(input.files)},
        first \in IF Librs(input.files) = {} THEN {<<>>} ELSE Librs(input.files) :
       LET category == input.category
           failed == runChecks(input, category, Templates, readme, first)
       IN /\ verdicts' = verdicts \cup
               {[category |-> category, failed |-> failed,
                 status |-> IF failed = {} THEN "valid" ELSE "invalid"]}
          /\ UNCHANGED <<input, ran, listings>>

\* findReadme and checkLibrsHasProjectLogic take the first file that matches.
Validate ==
  /\ Cardinality(verdicts) < MaxAnswers
  /\ \E readme \in IF Readmes(input.files) = {} THEN {Empty}
                   ELSE {input.files[p] : p \in Readmes(input.files)},
        first \in IF Librs(input.files) = {} THEN {<<>>} ELSE Librs(input.files) :
       LET category == IF input.category = "full-stack" THEN "full-stack" ELSE "ec-level"
           failed == runChecks(input, category, Templates, readme, first)
       IN /\ verdicts' = verdicts \cup
               {[category |-> category, failed |-> failed,
                 status |-> IF failed = {} THEN "valid" ELSE "invalid"]}
          /\ UNCHANGED <<input, ran, listings>>

Interface ==
  LET scoped == ScopedLibrs(input.files, input.contractPath)
  IN /\ Cardinality(listings) < MaxAnswers
     /\ \E order \in [1..Cardinality(scoped) -> scoped] :
          /\ \A p \in scoped : \E i \in DOMAIN order : order[i] = p
          /\ listings' = listings \cup {functionsOf(input.files, order)}
     /\ UNCHANGED <<input, ran, verdicts>>

Next == Run \/ Validate \/ Interface

Spec == Init /\ [][Next]_vars
-----------------------------------------------------------------------------
(* Properties.                                                             *)

\* Of a command that the handler accepted docker exec gets the arguments that blanks
\* outside quotes separate; the program is the word that the check looked at, unless a tab
\* follows it (ProgramIsChecked); and where the check took a metacharacter for quoted the
\* split is within quotes, too.
ArgvChecked ==
  ran # NoAnswer /\ ran.status = 202 =>
    /\ ArgsOf(ran.argv, Given)
    /\ ran.argv # <<>> /\ (ran.argv[1] = <<"name">> \/ Given[2] = "tab")
    /\ \A i \in DOMAIN Given : Dangerous(Given, i) => Scan(Given)[i].inQuote

\* run.go:18, "allowedPrefixes defines which command prefixes are permitted": the program
\* of a command that the handler accepted is an allowed one.
ProgramIsChecked == ran # NoAnswer /\ ran.status = 202 => ran.argv[1] = <<"name">>

\* types.go:80, interface.go:30: whatever the order of the files, a client that names a
\* crate gets the public functions of the files under its src, each once, and no others;
\* without a crate, those of all.
ListsTheCrate ==
  LET inCrate(p) ==
        \/ input.contractPath = <<>>
        \/ \E n \in 1..Len(p) - 2 :
             p[n + 1] = "src" /\ SubSeq(p, 1, n) = TrimSlash(input.contractPath)
      names == {fn.name : fn \in UNION {{input.files[p].fns[i] : i \in DOMAIN input.files[p].fns} :
                                        p \in {q \in Librs(input.files) : inCrate(q)}}}
  IN \A l \in listings :
       /\ {l[i].name : i \in DOMAIN l} = names \ SkippedFns
       /\ \A i, k \in DOMAIN l : l[i].name = l[k].name => i = k

\* The verdict on a project with one README and one lib.rs does not depend on the order
\* in which Go visits its files, so that a retry gets the same answer; and it finds
\* project logic just when the contract interface lists a function that is no placeholder.
VerdictFollows ==
  Cardinality(Readmes(input.files)) <= 1 /\
  Cardinality({p \in DOMAIN input.files : Last(p) \in LibrsNames}) <= 1 =>
    /\ \A v, w \in verdicts : v = w
    /\ \A v \in verdicts, l \in listings :
         input.contractPath = <<>> =>
           ("librs-project-logic-present" \notin v.failed <=>
              \E i \in DOMAIN l : l[i].name \notin Placeholders)
-----------------------------------------------------------------------------
(* The inductive invariant behind the properties.                          *)

\* The files that may be the first of their kind, and the checks that then fail.
ReadmeChoices ==
  IF Readmes(input.files) = {} THEN {Empty} ELSE {input.files[p] : p \in Readmes(input.files)}
LibrsChoices == IF Librs(input.files) = {} THEN {<<>>} ELSE Librs(input.files)
SentCategory == IF input.category = "full-stack" THEN "full-stack" ELSE "ec-level"
Failed(readme, first) == runChecks(input, SentCategory, Templates, readme, first)

\* Each answer is the one that the request has.
RanInv ==
  ran # NoAnswer =>
    /\ ran.status \in {202, 400}
    /\ ran.status = 202 => validateCommand(Given) = "" /\ ran.argv = splitArgs(Given)

VerdictInv ==
  \A v \in verdicts : \E readme \in ReadmeChoices, first \in LibrsChoices :
    v = [category |-> SentCategory, failed |-> Failed(readme, first),
         status |-> IF Failed(readme, first) = {} THEN "valid" ELSE "invalid"]

Scoped == ScopedLibrs(input.files, input.contractPath)

ListingInv ==
  \A l \in listings : \E order \in [1..Cardinality(Scoped) -> Scoped] :
    /\ \A p \in Scoped : \E i \in DOMAIN order : order[i] = p
    /\ l = functionsOf(input.files, order)

IInv == input \in Inputs /\ RanInv /\ VerdictInv /\ ListingInv
=============================================================================
