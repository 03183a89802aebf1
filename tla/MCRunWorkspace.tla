--------------------------- MODULE MCRunWorkspace ---------------------------
(* A small instance of RunWorkspace for TLC. *)
EXTENDS RunWorkspace, TLC

CONSTANTS r1, r2, r3, c1, u1, u2, u3, top, sub, topToml, subToml, lib

MCUUID == [r \in Reqs |-> IF r = r1 THEN u1 ELSE IF r = r2 THEN u2 ELSE u3]
MCParent == [d \in Dirs |-> top]
MCDirOf == [f \in Files |-> IF f = topToml THEN top ELSE sub]
MCManifest == [d \in Dirs |-> IF d = top THEN topToml ELSE subToml]

Ask(header, valid, files, cwd, touches) ==
  [client |-> c1, header |-> header, valid |-> valid, files |-> files, cwd |-> cwd,
   touches |-> touches]

\* Of a browser with cookies: a build of the project in the subdirectory, a command in it
\* that changes its source, and an invalid command; of a frontend that sends a session id
\* that it has, or got in an answer: an init command that makes the subdirectory.
MCRequests ==
  {Ask(None, TRUE, {subToml, lib}, top, {}), Ask(None, TRUE, {lib}, sub, {lib}),
   Ask(None, FALSE, {}, top, {})}
  \cup {Ask(header, TRUE, {}, top, {subToml}) : header \in SessionIDs}

\* Requests are alike; each takes the id that would be generated for it along.
ReqSymmetry ==
  {p @@ [u \in {UUID[r] : r \in Reqs} |-> UUID[p[CHOOSE r \in Reqs : UUID[r] = u]]]
     : p \in Permutations(Reqs)}
=============================================================================
