--------------------------- MODULE MCPullRequest ---------------------------
(***************************************************************************)
(* A repository with an application file and two installations of one      *)
(* file or two, and a notes file the owner never adds.                     *)
(***************************************************************************)
EXTENDS PullRequest, TLC

CONSTANTS app, notes, one, oneMarker, two, gitignore,   \* paths
          region,                                       \* the only hunk
          x, mine                                       \* texts

MCFiles == {app, notes, one, oneMarker, two, gitignore}
MCHunks == {region}
MCText == {x, mine}
Plain(text) == [h \in MCHunks |-> text]
Holding(fs) == [f \in MCFiles |-> IF f \in fs THEN Plain(x) ELSE Absent]

MCBranches == {"main", "a", "b", "c", "d"}
FewBranches == {"main", "a", "b"}
MCNamed == {"main", "a"}
Nothing == {}
MCTracked == Holding({app})
First == {one, oneMarker}
BothInstallations == {First, {two}}
OneInstallation == {First}
MCGenerated == [i \in BothInstallations |-> Holding(i)]
GeneratedOne == [i \in OneInstallation |-> Holding(i)]
AllInvocations == {"usual", "upgrade", "relative out"}
MCOwnFiles == {app, notes}
MCOwnBlobs == {Plain(mine)}
=============================================================================
