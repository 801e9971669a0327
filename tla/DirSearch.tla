----------------------------- MODULE DirSearch -----------------------------
(***************************************************************************)
(* Searching the directory of the host: functions 11h and 12h (spybdos.h)  *)
(* with Globor (dosglob.h), the conversion of host names to names of 8 and *)
(* 3 letters (Util::dosname) and back (FCB::extractFileName), and what a   *)
(* program can do with a name that a search has reported.                  *)
(*                                                                         *)
(* Users of the host create and delete files at any moment, also between   *)
(* two readdir() of one request.                                           *)
(***************************************************************************)
EXTENDS Integers, Sequences

CONSTANTS
  HostNames,    \* names that files of the host may have
  Patterns,     \* names with "?" that programs search for
  MaxHandles,   \* files and directories that the host may have open
  MaxChanges,   \* bound: files created or deleted by others
  MaxRestarts   \* bound: restarts of the host program

\* A host name, never empty: two parts, whether it has the dot between them,
\* whether all of its letters are capitals, and whether the parts are of 8 and 3
\* letters at most.
ASSUME DirAssumption ==
  /\ HostNames \subseteq [stem : STRING, ext : STRING, dot : BOOLEAN,
                          upper : BOOLEAN, fits : BOOLEAN]
  /\ \A n \in HostNames : ~n.dot => n.ext = "" /\ n.stem # ""
  /\ Patterns \subseteq [stem : STRING, ext : STRING]
  /\ MaxHandles \in Nat /\ MaxChanges \in Nat /\ MaxRestarts \in Nat

VARIABLES
  up,         \* the host program runs
  folds,      \* the host's file system takes capitals and others for the same
  dir,        \* the names of the files in the directory
  mdir,       \* Globor::m_dir: "wild" (never set), "null", "open"
  stream,     \* what readdir() has still to return
  pattern,    \* Globor::m_pattern
  phase,      \* "idle", "reading" (in SearchNext), "sizing" (name found)
  entry,      \* the name that match() accepted
  free,       \* handles that may still be opened
  reply,      \* of the latest request: what was found, and whether with a size
  found,      \* history: the names that the present search has reported
  since,      \* history: names that there were at some time of the search
  stay,       \* history: names that there were all the time of the search
  used,       \* history: the latest use of a reported name
  searches,   \* history: directories opened since the host started
  changes, restarts     \* bounds

search == << mdir, stream, pattern, phase, entry >>
history == << found, since, stay, used, searches >>
vars == << up, folds, dir, mdir, stream, pattern, phase, entry, free, reply,
           found, since, stay, used, searches, changes, restarts >>

NoName == [stem |-> "", ext |-> "", dot |-> FALSE, upper |-> TRUE, fits |-> FALSE]
NoUse == [asked |-> NoName, got |-> NoName, here |-> FALSE, free |-> 0]
NoReply == [found |-> NoName, sized |-> FALSE, free |-> 0, here |-> FALSE]

Unset == [stem |-> "", ext |-> ""]

\* Util::dosname makes capitals of letters and keeps no dot.
Dos(n) == [stem |-> n.stem, ext |-> n.ext]

\* Mutant of FileName: a dot is written only before an extension.
FileName_plain(d) ==
  [stem |-> d.stem, ext |-> d.ext, dot |-> d.ext # "", upper |-> TRUE, fits |-> TRUE]

\* extractFileName always writes the dot.
FileName(d) ==
  [stem |-> d.stem, ext |-> d.ext, dot |-> TRUE, upper |-> TRUE, fits |-> TRUE]

\* What the host's file system takes for the same name (external).
Same(m, n) ==
  m.stem = n.stem /\ m.ext = n.ext /\ m.dot = n.dot /\ (folds \/ m.upper = n.upper)
Named(m) == { n \in dir : Same(m, n) }

\* Globor::match: letters are equal, or "?" is in the pattern.
Matches(n) ==
  n.fits /\ pattern.stem \in {n.stem, "?"} /\ pattern.ext \in {n.ext, "?"}

Init ==
  /\ up = TRUE /\ folds \in BOOLEAN
  /\ dir \in SUBSET HostNames
  /\ \A m, n \in dir : Same(m, n) => m = n
  /\ mdir = "wild" /\ stream = {} /\ pattern = Unset
  /\ phase = "idle" /\ entry = NoName
  /\ free = MaxHandles /\ reply = NoReply
  /\ found = << >> /\ since = {} /\ stay = {} /\ used = NoUse /\ searches = 0
  /\ changes = 0 /\ restarts = 0

-----------------------------------------------------------------------------
(* The host's users and file system (external).                            *)

HostCreate ==
  /\ changes < MaxChanges /\ changes' = changes + 1
  /\ \E n \in HostNames :
       /\ Named(n) = {}
       /\ dir' = dir \union {n}
       /\ since' = since \union {n}
       /\ stream' \in {stream, stream \union {n}}      \* readdir may show it
  /\ UNCHANGED << up, folds, mdir, pattern, phase, entry, free, reply,
                  found, stay, used, searches, restarts >>

\* A deleted file may still be returned by readdir.
Gone(n) ==
  /\ dir' = dir \ {n}
  /\ stay' = stay \ {n}
  /\ stream' \in {stream, stream \ {n}}

HostDelete ==
  /\ changes < MaxChanges /\ changes' = changes + 1
  /\ \E n \in dir : Gone(n)
  /\ UNCHANGED << up, folds, mdir, pattern, phase, entry, free, reply,
                  found, since, used, searches, restarts >>

\* The host program is started anew, after a crash or not.
Restart ==
  /\ restarts < MaxRestarts /\ restarts' = restarts + 1
  /\ up' = TRUE /\ free' = MaxHandles /\ searches' = 0
  /\ mdir' = "wild" /\ stream' = {} /\ phase' = "idle" /\ entry' = NoName
  /\ reply' = NoReply /\ used' = NoUse
  /\ found' = << >> /\ since' = {} /\ stay' = {}
  /\ UNCHANGED << folds, dir, pattern, changes >>

-----------------------------------------------------------------------------
(* The requests of the workstation.                                        *)

Serving == up /\ phase = "idle"

\* Mutant of SearchFirst: a directory that is open is read on.
SearchFirst_on ==
  /\ Serving
  /\ pattern' \in Patterns
  /\ found' = << >> /\ since' = dir /\ stay' = dir
  /\ used' = NoUse
  /\ free > 0
  /\ mdir' = "open" /\ stream' = IF mdir = "open" THEN stream ELSE dir
  /\ free' = free - 1 /\ searches' = searches + 1
  /\ phase' = "reading"
  /\ UNCHANGED << up, folds, dir, entry, reply, changes, restarts >>

\* Function 11h: opendir, and no closedir of the directory opened before.
SearchFirst ==
  /\ Serving
  /\ pattern' \in Patterns
  /\ found' = << >> /\ since' = dir /\ stay' = dir
  /\ used' = NoUse
  /\ IF free = 0
       THEN /\ mdir' = "null" /\ stream' = {} /\ reply' = NoReply
            /\ UNCHANGED << phase, free, searches >>
       ELSE /\ mdir' = "open" /\ stream' = dir
            /\ free' = free - 1 /\ searches' = searches + 1
            /\ phase' = "reading" /\ UNCHANGED reply
  /\ UNCHANGED << up, folds, dir, entry, changes, restarts >>

\* Mutant of SearchNext: a null directory is read.
SearchNext_null ==
  /\ Serving
  /\ phase' = "reading"
  /\ UNCHANGED << up, folds, dir, mdir, stream, pattern, entry, free, reply,
                  history, changes, restarts >>

\* Function 12h.  Before the first search m_dir is what was on the stack: 0, or
\* an address that kills the host or has nothing to return.
SearchNext ==
  /\ Serving
  /\ \/ mdir = "open" /\ phase' = "reading" /\ UNCHANGED << up, reply >>
     \/ mdir # "open" /\ reply' = NoReply /\ UNCHANGED << up, phase >>
     \/ mdir = "wild" /\ up' = FALSE /\ UNCHANGED << reply, phase >>
  /\ UNCHANGED << folds, dir, mdir, stream, pattern, entry, free,
                  history, changes, restarts >>

\* Mutant of Read: the first name that does not match ends the search.
Read_gives_up ==
  /\ up /\ phase = "reading"
  /\ \/ \E n \in stream :
          /\ stream' = stream \ {n}
          /\ Matches(n) /\ phase' = "sizing" /\ entry' = n /\ UNCHANGED reply
     \/ /\ \E n \in stream : ~Matches(n)
        /\ phase' = "idle" /\ reply' = NoReply /\ UNCHANGED << entry, stream >>
     \/ /\ stream = {} /\ phase' = "idle" /\ reply' = NoReply
        /\ UNCHANGED << entry, stream >>
  /\ UNCHANGED << up, folds, dir, mdir, pattern, free, history, changes, restarts >>

\* One readdir of SearchNext, which goes on until a name matches.
Read ==
  /\ up /\ phase = "reading"
  /\ \/ \E n \in stream :
          /\ stream' = stream \ {n}
          /\ IF Matches(n) THEN phase' = "sizing" /\ entry' = n
                           ELSE UNCHANGED << phase, entry >>
          /\ UNCHANGED reply
     \/ /\ stream = {} /\ phase' = "idle" /\ reply' = NoReply
        /\ UNCHANGED << entry, stream >>
  /\ UNCHANGED << up, folds, dir, mdir, pattern, free, history, changes, restarts >>

\* internalGetFileSize opens the file and closes it; a size of -1 is reported
\* when that fails, with a result of 0 all the same.
Size ==
  /\ up /\ phase = "sizing"
  /\ reply' = [found |-> entry, sized |-> free > 0 /\ Named(entry) # {},
               free |-> free, here |-> Named(entry) # {}]
  /\ found' = Append(found, entry)
  /\ phase' = "idle" /\ entry' = NoName
  /\ UNCHANGED << up, folds, dir, mdir, stream, pattern, free, since, stay,
                  used, searches, changes, restarts >>

\* What fopen, unlink and rename make of a name that was reported.
Reached(n) == Named(FileName(Dos(n)))
Use(n, m) == [asked |-> n, got |-> m, here |-> n \in dir, free |-> free]

\* Function 0Fh with a name reported: fopen and fclose; a failure may end the
\* host (fclose of a null pointer).
OpenFound ==
  /\ Serving /\ reply.found # NoName
  /\ IF free > 0 /\ Reached(reply.found) # {}
       THEN \E m \in Reached(reply.found) : used' = Use(reply.found, m) /\ UNCHANGED up
       ELSE used' = Use(reply.found, NoName) /\ up' \in BOOLEAN
  /\ UNCHANGED << folds, dir, search, free, reply, found, since, stay,
                  searches, changes, restarts >>

\* Function 13h with a name reported: unlink.
DeleteFound ==
  /\ Serving /\ reply.found # NoName
  /\ IF Reached(reply.found) = {}
       THEN used' = [Use(reply.found, NoName) EXCEPT !.free = 1]
            /\ UNCHANGED << dir, stay, stream >>
       ELSE \E m \in Reached(reply.found) :
              used' = [Use(reply.found, m) EXCEPT !.free = 1] /\ Gone(m)
  /\ UNCHANGED << up, folds, mdir, pattern, phase, entry, free, reply,
                  found, since, searches, changes, restarts >>

-----------------------------------------------------------------------------
Next ==
  \/ HostCreate \/ HostDelete \/ Restart
  \/ SearchFirst \/ SearchNext \/ Read \/ Size \/ OpenFound \/ DeleteFound

Spec == Init /\ [][Next]_vars

-----------------------------------------------------------------------------
(* Properties.                                                             *)

TypeOK ==
  /\ up \in BOOLEAN /\ folds \in BOOLEAN
  /\ dir \subseteq HostNames /\ stream \subseteq HostNames
  /\ mdir \in {"wild", "null", "open"} /\ pattern \in Patterns \union {Unset}
  /\ phase \in {"idle", "reading", "sizing"} /\ entry \in HostNames \union {NoName}
  /\ (phase = "sizing" => entry \in HostNames) /\ (phase # "idle" => mdir = "open")
  /\ free \in 0..MaxHandles /\ searches \in 0..MaxHandles
  /\ found \in Seq(HostNames) /\ since \subseteq HostNames /\ stay \subseteq HostNames
  /\ changes \in 0..MaxChanges /\ restarts \in 0..MaxRestarts

\* A search that has come to its end has reported every matching file that was
\* there all the time, whatever others did to the directory meanwhile.
Reported == { found[i] : i \in DOMAIN found }
SearchComplete ==
  (up /\ phase = "idle" /\ mdir = "open" /\ reply = NoReply) =>
     \A n \in stay : Matches(n) => n \in Reported

\* A search reports only names that match and that there were at some time of
\* it: none of another search, of another pattern, of before a restart.
ReportedWasThere ==
  \A n \in Reported : n \in since /\ Matches(n)

\* A name is reported once, unless there are two host files of that name or it
\* was deleted meanwhile.
NamesOnce ==
  \A i, j \in DOMAIN found :
    (i < j /\ Dos(found[i]) = Dos(found[j])) => found[i] # found[j] \/ found[i] \notin stay

\* What searches report is right: nothing made up, and nothing twice, while others
\* change the directory between two readdir (Globor::SearchNext).
ReportedRight == ReportedWasThere /\ NamesOnce

\* The name reported leads to the file found if that is named in capitals (or
\* the file system does not care) and has a dot, and a handle is left; if it is
\* not, it leads to no file or to the twin in capitals.
FoundReached ==
  LET plain == used.asked.dot /\ (folds \/ used.asked.upper)
  IN (used.asked # NoName /\ used.here /\ used.free > 0) =>
       /\ plain => Same(used.got, used.asked)
       /\ ~plain => used.got # used.asked

\* A size is missing only for a file that is gone, or when no handle is left.
SizeKnown ==
  reply.found # NoName => (reply.sized <=> reply.here /\ reply.free > 0)

\* Each search takes one handle for good; nothing else does.  So the host opens
\* files until MaxHandles searches have been made since it started.
HandlesAccounted == free = MaxHandles - searches
=============================================================================
