----------------------- MODULE DesktopTasksProperties -----------------------
(* What the downloads of the desktop client promise. *)
EXTENDS DesktopTasks

\* A request in the list is not lost by a reload, a restart, or a write to a row
\* that was copied meanwhile: it leaves the list unfinished only when it is made
\* again or when newer requests fill the list.
AcceptedKept ==
    [][\A m \in Match :
        row[m].status \in Active /\ row'[m].stamp # row[m].stamp =>
            \/ row'[m].stamp > row[m].stamp
            \/ /\ clock' > clock
               /\ Cardinality({n \in Match : row'[n].stamp > row[m].stamp}) >= MaxRows]_vars

\* The replay is in a folder of Dota, and in the chosen one unless that was chosen
\* after the last native call for the match had ended well.
Playable(m) ==
    /\ \E f \in Folder : file[f][m] = "good"
    /\ m \notin elsewhere => folder \in Folder /\ file[folder][m] = "good"

\* A download that is called completed is in Dota's folder, verified if it was
\* fetched, whichever page asked for it and whoever wrote the file meanwhile. Once
\* the user has chosen another folder it need be in one of the folders only: the
\* dialog leaves the list alone, and the row completed (replay.rs:60-77).
CompletedIsPlayable == \A m \in Match : row[m].status = "completed" => Playable(m)

\* A file in a replay folder is never replaced, whoever wrote it and whenever.
FilesKept ==
    [][\A f \in Folder, m \in Match : file[f][m] # "none" => file'[f][m] = file[f][m]]_vars

\* Every download ends, although pages come and go under a native download and
\* answers are written to rows that were copied meanwhile, if the server's work on
\* its replay comes to an end. Two ends of that work nobody tells the list of: a
\* replay deleted from the archive, and one which only the API host is left with.
DownloadsEnd ==
    \A m \in Match :
        []<>(server[m] # "working") =>
            (row[m].status \in Active ~>
                row[m].status \notin Active \/ server[m] = "silent")
=============================================================================
