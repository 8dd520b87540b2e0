-------------------------------- MODULE Session --------------------------------
(***************************************************************************)
(* One client and its communication thread, from the client's argument to  *)
(* the first file on the client's disk: the exchange of Handshake, and     *)
(* then ClientPath for a file of the directory that the server scans.  The *)
(* directory, as each side knows it from the exchange, is what ClientPath  *)
(* works with.                                                             *)
(***************************************************************************)
EXTENDS Handshake

CONSTANTS DefaultDir, FilePaths

\* Names are strings; a regular file's path ends with its name.
Strings == {DefaultDir, NoDirectory} \cup Directories \cup FilePaths
Characters == UNION {{s[i] : i \in DOMAIN s} : s \in Strings}

ASSUME StringAssumption ==
  /\ Strings \subseteq Seq(Characters)
  /\ \A f \in FilePaths : f # <<>> /\ f[Len(f)] # "/"

VARIABLES ppc, rest, start, copied_path, made

Resolve == INSTANCE ClientPath WITH pc <- ppc, client_path <- directory

pathVars == <<ppc, rest, start, copied_path, made>>
sessionVars == <<vars, pathVars>>

SessionInit == Init /\ Resolve!Init

\* The path of the first file comes when both sides are done with the exchange.
ResolvePath ==
  /\ cpc = "copy" /\ spc = "scan"
  /\ Resolve!Next
  /\ UNCHANGED vars

SessionNext ==
  \/ Next /\ UNCHANGED pathVars
  \/ ResolvePath

SessionSpec ==
  SessionInit /\ [][SessionNext]_sessionVars /\ WF_vars(ClientStep) /\ WF_vars(ServerStep)

-----------------------------------------------------------------------------
\* The properties of the path: see ClientPath.
PathTypeOK == Resolve!TypeOK

\* A copy is where it belongs, for what the client has asked for and the server
\* has understood (Client.c:190-193, Server.c:113-114).
RightPlace == Resolve!RightPlace

\* Its directories are made from the outside in (Client.c:212-249).
ParentsFirst == Resolve!ParentsFirst
=============================================================================
