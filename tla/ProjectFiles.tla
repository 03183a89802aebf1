---------------------------- MODULE ProjectFiles ----------------------------
(***************************************************************************)
(* What the handlers read out of a project's files: the functions of its   *)
(* contracts (internal/handler/interface.go), and the checks of its        *)
(* validation (internal/handler/validate.go).                              *)
(*                                                                         *)
(* files maps paths to contents. A path is the sequence of its segments;   *)
(* the code matches parts of its text, so that a set of segments stands    *)
(* for all that have the part, in either case where the code ignores it. A *)
(* content is a record of what the code looks for in it:                   *)
(*   bytes     its length: "none", "short" (under 300), "long", "huge"     *)
(*   words     its set of words                                            *)
(*   headings  the keywords its headings contain                           *)
(*   has       the patterns it contains, and "title" for a # line          *)
(*   fns       the matches of pubFnRe: the name and parameters of each     *)
(*                                                                         *)
(* A range over a Go map visits the keys in any order. Where the order     *)
(* shows, the order, or the key that comes first, is a parameter.          *)
(***************************************************************************)
EXTENDS Naturals, Sequences, FiniteSets, SequencesExt

LibrsNames == {"lib.rs", "mylib.rs"}

\* Mutant: takes every Rust file for a lib.rs.
IsLibrsAny(path) == Last(path) \in LibrsNames \cup {"test.rs"}

\* strings.HasSuffix(path, "lib.rs"), which more than a crate's lib.rs has.
IsLibrs(path) == Last(path) \in LibrsNames
-----------------------------------------------------------------------------
(* POST /contract/interface.                                               *)

SkippedFns == {"test_vote", "new"}      \* those with the prefix test, and new
SkippedParams == {"env", "self", "_env"}
ReadNames == {"get_count", "balance"}   \* those that match one of readPatterns
WriteNames == {"increment", "set_fee"}  \* those that match one of writePatterns

inferCategory(name) ==
  CASE name \in ReadNames -> "read"
    [] name \in WriteNames \ ReadNames -> "write"
    [] OTHER -> "unknown"

Parsed(fn) ==
  [name     |-> fn.name,
   params   |-> SelectSeq(fn.params, LAMBDA p : p \notin SkippedParams),
   category |-> inferCategory(fn.name)]

\* After each match of pubFnRe, the functions that are shown.
Shown(matches) ==
  LET fns[i \in 0..Len(matches)] ==
        IF i = 0 THEN <<>>
        ELSE IF matches[i].name \in SkippedFns THEN fns[i - 1]
        ELSE Append(fns[i - 1], Parsed(matches[i]))
  IN fns

parseContractFns(src) == Shown(src.fns)[Len(src.fns)]

\* contract_path without a slash at its end, which is an empty last segment.
TrimSlash(path) == IF Last(path) = "" THEN Front(path) ELSE path

\* Mutant: the files whose path starts with the text of contract_path, without /src/.
InScopeLoose(path, contractPath) ==
  contractPath = <<>> \/ IsStrictPrefix(TrimSlash(contractPath), path)

InScope(path, contractPath) ==
  contractPath = <<>> \/ IsStrictPrefix(TrimSlash(contractPath) \o <<"src">>, path)

ScopedLibrs(files, contractPath) ==
  {p \in DOMAIN files : IsLibrs(p) /\ InScope(p, contractPath)}

KeepFirst(fns, fn) ==
  IF \E i \in DOMAIN fns : fns[i].name = fn.name THEN fns ELSE Append(fns, fn)

\* After each function of fns, those that came first of their name.
Deduped(fns) ==
  LET kept[i \in 0..Len(fns)] == IF i = 0 THEN <<>> ELSE KeepFirst(kept[i - 1], fns[i])
  IN kept

\* After each file that is visited, the functions of all so far.
Collected(files, order) ==
  LET fns[k \in 0..Len(order)] ==
        IF k = 0 THEN <<>> ELSE fns[k - 1] \o parseContractFns(files[order[k]])
  IN fns

\* The answer when the lib.rs files in scope are visited in this order.
functionsOf(files, order) ==
  LET fns == Collected(files, order)[Len(order)] IN Deduped(fns)[Len(fns)]
-----------------------------------------------------------------------------
(* POST /validate/project: each operator says whether its check passes.     *)

DefaultFolders == {"hello-world", "hello_world", "notes"}
Placeholders == {"hello", "increment", "get_count"}
HelloSignatures == {"fn hello(", "pub fn hello", "vec![hello", "symbol::new"}
ContractsDirs == {"contracts", "mycontracts"}   \* those that end in contracts
FrontendNames == {"package.json", "index.html", "old-package.json"}   \* those that contain one
SrcDirs == {"src", "websrc"}                      \* those that end in src
FrontendDirs == {"app", "app.rs", "pages", "components"}   \* those that begin with one

Empty == [bytes |-> "none", words |-> {}, headings |-> {}, has |-> {}, fns |-> <<>>]

Readmes(files) == {p \in DOMAIN files : Last(p) \in {"README.md", "readme.md"}}
Librs(files) == {p \in DOMAIN files : IsLibrs(p)}

checkRepoName(name) == ~name.generic /\ name.length >= 5

checkContractFolderRenamed(files) ==
  \A p \in DOMAIN files :
    ~(Len(p) >= 2 /\ p[1] = "contracts" /\ p[2] \in DefaultFolders)

\* similarity(a, b) > 0.75: three quarters of the words of either are in both.
NearCopy(a, b) ==
  /\ a.bytes # "none" /\ b.bytes # "none"
  /\ LET common == Cardinality(a.words \cap b.words)
         total == Cardinality(a.words) + Cardinality(b.words) - common
     IN total = 0 \/ 4 * common > 3 * total

checkReadmeNotTemplate(readme, templates) ==
  readme.bytes \notin {"none", "short"} /\ \A t \in templates : ~NearCopy(readme, t)

hasHeading(readme, keywords) == readme.headings \cap keywords # {}

checkReadmeTitle(readme) == "title" \in readme.has

checkReadmeDescription(readme) == hasHeading(readme, {"description", "about", "overview"})

checkReadmeVision(readme) == hasHeading(readme, {"vision"})

checkReadmeKeyFeatures(readme) == hasHeading(readme, {"feature", "features"})

checkReadmeFutureScope(readme) == hasHeading(readme, {"future", "roadmap", "scope"})

checkReadmeSetupGuide(readme) ==
  hasHeading(readme, {"setup", "install", "getting started", "run"})

checkReadmeDeployedDetails(readme) ==
  /\ hasHeading(readme, {"contract", "deployed", "deployment"})
  /\ {"contract id", "image"} \subseteq readme.has

checkLibrsNotHelloWorld(files) ==
  \A p \in Librs(files) : Cardinality(files[p].has \cap HelloSignatures) < 2

\* Looks at one lib.rs only, the first that the range comes to.
checkLibrsHasProjectLogic(files, first) ==
  /\ Librs(files) # {}
  /\ LET fns == parseContractFns(files[first])
     IN \E i \in DOMAIN fns : fns[i].name \notin Placeholders

checkReadmeUIScreenshots(readme) ==
  hasHeading(readme, {"screenshot", "ui", "demo"}) /\ "image" \in readme.has

checkFullStackHasFrontend(files) ==
  \E p \in DOMAIN files :
    \/ \E i \in 1..Len(p) : p[i] \in FrontendNames
    \/ \E i \in 1..Len(p) - 1 : p[i] \in SrcDirs /\ p[i + 1] \in FrontendDirs

checkFullStackHasContract(files) ==
  \E p \in Librs(files) : \E i \in 1..Len(p) - 1 : p[i] \in ContractsDirs

checkFullStackHasIntegration(files) == \E p \in DOMAIN files : "sdk" \in files[p].has

Passed(id, passes) == IF passes THEN {} ELSE {id}

\* The checks that fail, all of which are required.
runChecks(req, category, templates, readme, firstLibrs) ==
  UNION {
    Passed("repo-name-quality", checkRepoName(req.repoName)),
    Passed("contracts-folder-renamed", checkContractFolderRenamed(req.files)),
    Passed("readme-not-template-copy", checkReadmeNotTemplate(readme, templates)),
    Passed("readme-project-title", checkReadmeTitle(readme)),
    Passed("readme-project-description", checkReadmeDescription(readme)),
    Passed("readme-project-vision", checkReadmeVision(readme)),
    Passed("readme-key-features", checkReadmeKeyFeatures(readme)),
    Passed("readme-deployed-contract-details", checkReadmeDeployedDetails(readme)),
    Passed("readme-future-scope", checkReadmeFutureScope(readme)),
    Passed("librs-not-hello-world", checkLibrsNotHelloWorld(req.files)),
    Passed("librs-project-logic-present", checkLibrsHasProjectLogic(req.files, firstLibrs)),
    IF category # "full-stack" THEN {}
    ELSE UNION {
      Passed("readme-ui-screenshots", checkReadmeUIScreenshots(readme)),
      Passed("readme-project-setup-guide", checkReadmeSetupGuide(readme)),
      Passed("fullstack-has-frontend", checkFullStackHasFrontend(req.files)),
      Passed("fullstack-has-contract", checkFullStackHasContract(req.files)),
      Passed("fullstack-has-integration-logic", checkFullStackHasIntegration(req.files))}}
=============================================================================
