-------------------------- MODULE DirSearchProofs --------------------------
(***************************************************************************)
(* Proofs about DirSearch, for any host names, patterns, number of handles *)
(* and changes that others make to the directory.                          *)
(***************************************************************************)
EXTENDS DirSearch, SequenceTheorems, TLAPS

-----------------------------------------------------------------------------
(* Types, and the handles that searches keep.                              *)

TypeInv == TypeOK /\ HandlesAccounted

LEMMA NameLess == NoName \notin HostNames
BY DirAssumption DEF NoName

LEMMA NatConstants == MaxHandles \in Nat /\ MaxChanges \in Nat /\ MaxRestarts \in Nat
BY DirAssumption

LEMMA Counters ==
  ASSUME TypeOK
  PROVE  /\ changes \in 0..MaxChanges /\ restarts \in 0..MaxRestarts
         /\ free \in 0..MaxHandles /\ searches \in 0..MaxHandles
BY DEF TypeOK

LEMMA NameAppended ==
  ASSUME NEW S, NEW s \in Seq(S), NEW x \in S, NEW w, w = Append(s, x)
  PROVE  /\ w \in Seq(S) /\ DOMAIN w = 1..Len(w) /\ DOMAIN s = 1..Len(s)
         /\ Len(s) \in Nat /\ Len(w) = Len(s) + 1
         /\ \A i \in 1..Len(s) : w[i] = s[i]
         /\ w[Len(s) + 1] = x
         /\ { w[i] : i \in DOMAIN w } = { s[i] : i \in DOMAIN s } \union {x}
<1>1. /\ w \in Seq(S) /\ Len(s) \in Nat /\ Len(w) = Len(s) + 1
      /\ \A i \in 1..Len(s) : w[i] = s[i]
      /\ w[Len(s) + 1] = x
  BY AppendProperties, LenProperties
<1>2. DOMAIN w = 1..Len(w) /\ DOMAIN s = 1..Len(s)
  BY <1>1, LenProperties
<1>3. \A i \in DOMAIN w : i \in DOMAIN s \/ i = Len(s) + 1
  BY <1>1, <1>2
<1>4. Len(s) + 1 \in DOMAIN w /\ \A i \in DOMAIN s : i \in DOMAIN w
  BY <1>1, <1>2
<1>5. { w[i] : i \in DOMAIN w } = { s[i] : i \in DOMAIN s } \union {x}
  BY <1>1, <1>2, <1>3, <1>4
<1> QED
  BY <1>1, <1>2, <1>5

LEMMA TypeStarts == Init => TypeInv
<1> SUFFICES ASSUME Init PROVE TypeInv
  OBVIOUS
<1>1. found = << >> /\ << >> \in Seq(HostNames)
  BY EmptySeq DEF Init
<1>2. up \in BOOLEAN /\ folds \in BOOLEAN
  BY Zenon DEF Init
<1>3. dir \subseteq HostNames
  BY DEF Init
<1>4. /\ free = MaxHandles /\ searches = 0 /\ changes = 0 /\ restarts = 0
      /\ mdir = "wild" /\ stream = {} /\ pattern = Unset /\ phase = "idle" /\ entry = NoName
      /\ since = {} /\ stay = {}
  BY DEF Init
<1>5. /\ changes \in 0..MaxChanges /\ restarts \in 0..MaxRestarts
      /\ free \in 0..MaxHandles /\ searches \in 0..MaxHandles
      /\ free = MaxHandles - searches
  BY <1>4, NatConstants
<1> QED
  BY <1>1, <1>2, <1>3, <1>4, <1>5 DEF TypeInv, TypeOK, HandlesAccounted

LEMMA TypeStep == TypeInv /\ [Next]_vars => TypeInv'
<1> SUFFICES ASSUME TypeOK, HandlesAccounted, [Next]_vars PROVE TypeOK' /\ HandlesAccounted'
  BY DEF TypeInv
<1> USE DEF search, history
<1>1. CASE HostCreate
  <2>1. dir' \subseteq HostNames /\ stream' \subseteq HostNames /\ since' \subseteq HostNames
    BY <1>1 DEF HostCreate, TypeOK
  <2>2. changes' \in 0..MaxChanges
    BY <1>1, Counters, NatConstants DEF HostCreate
  <2>3. UNCHANGED << up, folds, mdir, pattern, phase, entry, free, found, stay, searches, restarts >>
    BY <1>1 DEF HostCreate
  <2> QED
    BY <2>1, <2>2, <2>3 DEF TypeOK, HandlesAccounted
<1>2. CASE HostDelete
  <2>1. dir' \subseteq HostNames /\ stream' \subseteq HostNames /\ stay' \subseteq HostNames
    BY <1>2 DEF HostDelete, Gone, TypeOK
  <2>2. changes' \in 0..MaxChanges
    BY <1>2, Counters, NatConstants DEF HostDelete
  <2>3. UNCHANGED << up, folds, mdir, pattern, phase, entry, free, found, since, searches, restarts >>
    BY <1>2 DEF HostDelete
  <2> QED
    BY <2>1, <2>2, <2>3 DEF TypeOK, HandlesAccounted
<1>3. CASE Restart
  <2>1. found' \in Seq(HostNames)
    BY <1>3, EmptySeq DEF Restart
  <2>2. up' \in BOOLEAN
    BY <1>3, Zenon DEF Restart
  <2>3. /\ restarts' \in 0..MaxRestarts /\ free' \in 0..MaxHandles
        /\ searches' \in 0..MaxHandles /\ free' = MaxHandles - searches'
    BY <1>3, Counters, NatConstants DEF Restart
  <2>4. /\ mdir' = "wild" /\ stream' = {} /\ phase' = "idle" /\ entry' = NoName
        /\ since' = {} /\ stay' = {}
        /\ UNCHANGED << folds, dir, pattern, changes >>
    BY <1>3 DEF Restart
  <2> QED
    BY <2>1, <2>2, <2>3, <2>4 DEF TypeOK, HandlesAccounted
<1>4. CASE SearchFirst
  <2>1. /\ found' \in Seq(HostNames) /\ pattern' \in Patterns /\ since' = dir /\ stay' = dir
        /\ UNCHANGED << up, folds, dir, entry, changes, restarts >> /\ phase = "idle"
    BY <1>4, EmptySeq DEF SearchFirst, Serving
  <2>2. \/ /\ mdir' = "null" /\ stream' = {} /\ UNCHANGED << phase, free, searches >>
        \/ /\ mdir' = "open" /\ stream' = dir /\ phase' = "reading"
           /\ free # 0 /\ free' = free - 1 /\ searches' = searches + 1
    BY <1>4 DEF SearchFirst
  <2>3. /\ free' \in 0..MaxHandles /\ searches' \in 0..MaxHandles
        /\ free' = MaxHandles - searches'
    BY <2>2, Counters, NatConstants DEF HandlesAccounted
  <2> QED
    BY <2>1, <2>2, <2>3 DEF TypeOK, HandlesAccounted
<1>5. CASE SearchNext
  <2>1. up' \in BOOLEAN
    BY <1>5, Zenon DEF SearchNext, TypeOK
  <2>2. /\ UNCHANGED << folds, dir, mdir, stream, pattern, entry, free, found, since, stay,
                        searches, changes, restarts >>
        /\ \/ phase' = phase
           \/ mdir = "open" /\ phase' = "reading"
    BY <1>5 DEF SearchNext
  <2> QED
    BY <2>1, <2>2 DEF TypeOK, HandlesAccounted
<1>6. CASE Read
  <2>1. /\ UNCHANGED << up, folds, dir, mdir, pattern, free, found, since, stay,
                        searches, changes, restarts >>
        /\ phase = "reading"
    BY <1>6 DEF Read
  <2>2. \/ /\ stream' \subseteq stream
           /\ \/ phase' = "sizing" /\ entry' \in stream
              \/ UNCHANGED << phase, entry >>
        \/ phase' = "idle" /\ UNCHANGED << entry, stream >>
    BY <1>6 DEF Read
  <2> QED
    BY <2>1, <2>2 DEF TypeOK, HandlesAccounted
<1>7. CASE Size
  <2>1. found' \in Seq(HostNames)
    BY <1>7, AppendProperties DEF Size, TypeOK
  <2> QED
    BY <1>7, <2>1 DEF Size, TypeOK, HandlesAccounted
<1>8. CASE OpenFound
  <2>1. up' \in BOOLEAN
    BY <1>8, Zenon DEF OpenFound, TypeOK
  <2> QED
    BY <1>8, <2>1 DEF OpenFound, TypeOK, HandlesAccounted
<1>9. CASE DeleteFound
  <2>1. dir' \subseteq HostNames /\ stream' \subseteq HostNames /\ stay' \subseteq HostNames
    BY <1>9 DEF DeleteFound, Gone, TypeOK
  <2>2. UNCHANGED << up, folds, mdir, pattern, phase, entry, free, found, since, searches,
                     changes, restarts >>
    BY <1>9 DEF DeleteFound
  <2> QED
    BY <2>1, <2>2 DEF TypeOK, HandlesAccounted
<1>10. CASE UNCHANGED vars
  BY <1>10 DEF vars, TypeOK, HandlesAccounted
<1> QED
  BY <1>1, <1>2, <1>3, <1>4, <1>5, <1>6, <1>7, <1>8, <1>9, <1>10 DEF Next

\* TypeOK and HandlesAccounted: each search keeps one handle (Globor never calls
\* closedir), and size look-ups and opens give theirs back.
THEOREM OneHandleASearch == Spec => [](TypeOK /\ HandlesAccounted)
<1>1. TypeInv => TypeOK /\ HandlesAccounted
  BY DEF TypeInv
<1> QED
  BY <1>1, TypeStarts, TypeStep, PTL DEF Spec

-----------------------------------------------------------------------------
(* What a search reports.                                                  *)

Sizing(n) == phase = "sizing" /\ n = entry

\* What readdir has still to return was there at some time of the search, and a
\* name that match() has accepted, too.
Trail ==
  /\ stay \subseteq dir /\ stream \subseteq since
  /\ phase = "sizing" => entry \in since /\ Matches(entry)
  /\ ReportedWasThere

\* A file that was there all the time is reported, or its turn will come.
Left ==
  (up /\ mdir = "open") =>
     \A n \in stay : Matches(n) =>
        \/ n \in Reported
        \/ (phase # "idle" \/ reply # NoReply) /\ (n \in stream \/ Sizing(n))

\* It is in one place only.
Once ==
  /\ \A n \in stay : n \in Reported => n \notin stream /\ ~Sizing(n)
  /\ \A n \in stay : Sizing(n) => n \notin stream
  /\ NamesOnce

SearchInv == TypeInv /\ Trail /\ Left /\ Once

LEMMA SearchStarts == Init => SearchInv
<1> SUFFICES ASSUME Init PROVE SearchInv
  OBVIOUS
<1>1. /\ stay = {} /\ stream = {} /\ since = {} /\ mdir = "wild" /\ phase = "idle"
      /\ found = << >>
  BY DEF Init
<1>2. DOMAIN found = {}
  BY <1>1
<1>3. Reported = {}
  BY <1>2 DEF Reported
<1>4. Trail
  BY <1>1, <1>3 DEF Trail, ReportedWasThere
<1>5. Left
  BY <1>1 DEF Left
<1>6. Once
  BY <1>1, <1>2 DEF Once, NamesOnce
<1> QED
  BY <1>4, <1>5, <1>6, TypeStarts DEF SearchInv

\* Files come and go.
LEMMA CreateKeeps == SearchInv /\ HostCreate => Trail' /\ Left' /\ Once'
<1> SUFFICES ASSUME SearchInv, HostCreate PROVE Trail' /\ Left' /\ Once'
  OBVIOUS
<1>1. UNCHANGED << up, folds, mdir, pattern, phase, entry, reply, found, stay >>
  BY DEF HostCreate
<1>2. PICK n \in HostNames :
        /\ Named(n) = {}
        /\ dir' = dir \union {n} /\ since' = since \union {n}
        /\ stream' \in {stream, stream \union {n}}
  BY DEF HostCreate
<1>3. n \notin stay
  BY <1>2 DEF Named, Same, SearchInv, Trail
<1>4. stream \subseteq stream' /\ stream' \subseteq stream \union {n}
  BY <1>2
<1>5. Reported' = Reported
  BY <1>1 DEF Reported
<1>6. Trail'
  BY <1>1, <1>2, <1>4, <1>5 DEF SearchInv, Trail, ReportedWasThere, Matches
<1>7. Left'
  BY <1>1, <1>4, <1>5 DEF SearchInv, Left, Matches, Sizing
<1>8. Once'
  BY <1>1, <1>3, <1>4, <1>5 DEF SearchInv, Once, NamesOnce, Sizing
<1> QED
  BY <1>6, <1>7, <1>8

LEMMA GoneKeeps ==
  ASSUME SearchInv, NEW n, Gone(n),
         UNCHANGED << up, folds, mdir, pattern, phase, entry, reply, found, since >>
  PROVE  Trail' /\ Left' /\ Once'
<1>1. /\ dir' = dir \ {n} /\ stay' = stay \ {n} /\ stream' \subseteq stream
      /\ \A m \in stream : m \in stream' \/ m = n
  BY DEF Gone
<1>2. Reported' = Reported
  BY DEF Reported
<1>3. Trail'
  BY <1>1, <1>2 DEF SearchInv, Trail, ReportedWasThere, Matches
<1>4. Left'
  BY <1>1, <1>2 DEF SearchInv, Left, Matches, Sizing
<1>5. Once'
  BY <1>1, <1>2 DEF SearchInv, Once, NamesOnce, Sizing
<1> QED
  BY <1>3, <1>4, <1>5

\* A search begins with nothing reported.
LEMMA FirstKeeps == SearchInv /\ SearchFirst => Trail' /\ Left' /\ Once'
<1> SUFFICES ASSUME SearchInv, SearchFirst PROVE Trail' /\ Left' /\ Once'
  OBVIOUS
<1>1. /\ found' = << >> /\ since' = dir /\ stay' = dir /\ dir' = dir
      /\ phase = "idle" /\ up
  BY DEF SearchFirst, Serving
<1>2. \/ mdir' = "null" /\ stream' = {} /\ phase' = "idle"
      \/ mdir' = "open" /\ stream' = dir /\ phase' = "reading"
  BY <1>1 DEF SearchFirst
<1>3. DOMAIN found' = {}
  BY <1>1
<1>4. Reported' = {}
  BY <1>3 DEF Reported
<1>5. Trail'
  BY <1>1, <1>2, <1>4 DEF Trail, ReportedWasThere
<1>6. Left'
  BY <1>1, <1>2 DEF Left
<1>7. Once'
  BY <1>2, <1>3, <1>4 DEF Once, NamesOnce, Sizing
<1> QED
  BY <1>5, <1>6, <1>7

\* readdir gives a name, which matches or not, or ends.
LEMMA ReadKeeps == SearchInv /\ Read => Trail' /\ Left' /\ Once'
<1> SUFFICES ASSUME SearchInv, Read PROVE Trail' /\ Left' /\ Once'
  OBVIOUS
<1>1. /\ UNCHANGED << up, dir, mdir, pattern, found, since, stay >>
      /\ phase = "reading"
  BY DEF Read, history
<1>2. Reported' = Reported
  BY <1>1 DEF Reported
<1>3. CASE stream = {} /\ phase' = "idle" /\ UNCHANGED << entry, stream >>
  <2>1. Trail'
    BY <1>1, <1>2, <1>3 DEF SearchInv, Trail, ReportedWasThere, Matches
  <2>2. Left'
    BY <1>1, <1>2, <1>3 DEF SearchInv, Left, Matches, Sizing
  <2>3. Once'
    BY <1>1, <1>2, <1>3 DEF SearchInv, Once, NamesOnce, Sizing
  <2> QED
    BY <2>1, <2>2, <2>3
<1>4. ASSUME NEW n \in stream, stream' = stream \ {n}, Matches(n), phase' = "sizing", entry' = n
      PROVE  Trail' /\ Left' /\ Once'
  <2>1. Trail'
    BY <1>1, <1>2, <1>4 DEF SearchInv, Trail, ReportedWasThere, Matches
  <2>2. Left'
    BY <1>1, <1>2, <1>4 DEF SearchInv, Left, Matches, Sizing
  <2>3. Once'
    BY <1>1, <1>2, <1>4 DEF SearchInv, Once, NamesOnce, Sizing
  <2> QED
    BY <2>1, <2>2, <2>3
<1>5. ASSUME NEW n \in stream, stream' = stream \ {n}, ~Matches(n), UNCHANGED << phase, entry >>
      PROVE  Trail' /\ Left' /\ Once'
  <2>1. Trail'
    BY <1>1, <1>2, <1>5 DEF SearchInv, Trail, ReportedWasThere, Matches
  <2>2. Left'
    BY <1>1, <1>2, <1>5 DEF SearchInv, Left, Matches, Sizing
  <2>3. Once'
    BY <1>1, <1>2, <1>5 DEF SearchInv, Once, NamesOnce, Sizing
  <2> QED
    BY <2>1, <2>2, <2>3
<1> QED
  BY <1>3, <1>4, <1>5 DEF Read

\* The accepted name is reported.
LEMMA SizeKeeps == SearchInv /\ Size => Trail' /\ Left' /\ Once'
<1> SUFFICES ASSUME SearchInv, Size PROVE Trail' /\ Left' /\ Once'
  OBVIOUS
<1>1. /\ UNCHANGED << up, dir, mdir, stream, pattern, since, stay >>
      /\ phase = "sizing" /\ phase' = "idle" /\ found' = Append(found, entry)
      /\ reply'.found = entry
  BY DEF Size
<1>2. found \in Seq(HostNames) /\ entry \in HostNames
  BY <1>1 DEF SearchInv, TypeInv, TypeOK
<1>3. /\ DOMAIN found' = 1..Len(found') /\ DOMAIN found = 1..Len(found)
      /\ Len(found) \in Nat /\ Len(found') = Len(found) + 1
      /\ \A i \in 1..Len(found) : found'[i] = found[i]
      /\ found'[Len(found) + 1] = entry
      /\ { found'[i] : i \in DOMAIN found' } = { found[i] : i \in DOMAIN found } \union {entry}
  BY <1>1, <1>2, NameAppended
<1>4. Reported' = Reported \union {entry}
  BY <1>3 DEF Reported
<1>5. reply' # NoReply
  BY <1>1, <1>2, NameLess DEF NoReply
<1>6. entry \in since /\ Matches(entry)
  BY <1>1 DEF SearchInv, Trail
<1>7. entry \in stay => entry \notin stream /\ entry \notin Reported
  BY <1>1 DEF SearchInv, Once, Sizing
<1>8. Trail'
  BY <1>1, <1>4, <1>6 DEF SearchInv, Trail, ReportedWasThere, Matches
<1>9. Left'
  BY <1>1, <1>4, <1>5 DEF SearchInv, Left, Matches, Sizing
<1>10. NamesOnce'
  <2> SUFFICES ASSUME NEW i \in DOMAIN found', NEW j \in DOMAIN found', i < j
               PROVE  found'[i] # found'[j] \/ found'[i] \notin stay
    BY <1>1 DEF NamesOnce
  <2>1. i \in DOMAIN found
    BY <1>3
  <2>2. CASE j \in DOMAIN found
    <3>1. Dos(found[i]) = Dos(found[j]) => found[i] # found[j] \/ found[i] \notin stay
      BY <2>1, <2>2 DEF SearchInv, Once, NamesOnce
    <3>2. found[i] = found[j] => Dos(found[i]) = Dos(found[j])
      BY DEF Dos
    <3> QED
      BY <1>3, <2>1, <2>2, <3>1, <3>2
  <2>3. CASE j = Len(found) + 1
    <3>1. found[i] \in Reported
      BY <2>1 DEF Reported
    <3> QED
      BY <1>3, <1>7, <2>1, <2>3, <3>1
  <2> QED
    BY <1>3, <2>2, <2>3
<1>11. Once'
  BY <1>1, <1>4, <1>7, <1>10 DEF SearchInv, Once, Sizing
<1> QED
  BY <1>8, <1>9, <1>11

LEMMA SearchStep == SearchInv /\ [Next]_vars => SearchInv'
<1> SUFFICES ASSUME SearchInv, [Next]_vars PROVE Trail' /\ Left' /\ Once'
  BY TypeStep DEF SearchInv
<1> USE DEF search, history
<1>1. CASE HostCreate
  BY <1>1, CreateKeeps
<1>2. CASE HostDelete
  BY <1>2, GoneKeeps DEF HostDelete
<1>3. CASE Restart
  <2>1. /\ stay' = {} /\ stream' = {} /\ since' = {} /\ mdir' = "wild" /\ phase' = "idle"
        /\ found' = << >>
    BY <1>3 DEF Restart
  <2>2. DOMAIN found' = {}
    BY <2>1
  <2>3. Reported' = {}
    BY <2>2 DEF Reported
  <2> QED
    BY <2>1, <2>2, <2>3 DEF Trail, Left, Once, NamesOnce, ReportedWasThere, Sizing
<1>4. CASE SearchFirst
  BY <1>4, FirstKeeps
<1>5. CASE SearchNext
  <2>1. /\ UNCHANGED << dir, mdir, stream, pattern, entry, found, since, stay >>
        /\ \/ mdir = "open" /\ phase' = "reading" /\ up' = up
           \/ mdir # "open" /\ phase' = phase
        /\ phase = "idle" /\ up
    BY <1>5 DEF SearchNext, Serving
  <2>2. Reported' = Reported
    BY <2>1 DEF Reported
  <2>3. Trail'
    BY <2>1, <2>2 DEF SearchInv, Trail, ReportedWasThere, Matches
  <2>4. Left'
    BY <2>1, <2>2 DEF SearchInv, Left, Matches, Sizing
  <2>5. Once'
    BY <2>1, <2>2 DEF SearchInv, Once, NamesOnce, Sizing
  <2> QED
    BY <2>3, <2>4, <2>5
<1>6. CASE Read
  BY <1>6, ReadKeeps
<1>7. CASE Size
  BY <1>7, SizeKeeps
<1>8. ASSUME UNCHANGED << dir, search, found, since, stay, reply >>, up' => up
      PROVE  Trail' /\ Left' /\ Once'
  <2>1. Reported' = Reported
    BY <1>8 DEF Reported
  <2> QED
    BY <1>8, <2>1 DEF SearchInv, Trail, Left, Once, NamesOnce, ReportedWasThere, Matches, Sizing
<1>9. CASE OpenFound
  <2>1. up
    BY <1>9 DEF OpenFound, Serving
  <2> QED
    BY <1>8, <1>9, <2>1 DEF OpenFound
<1>10. CASE DeleteFound
  BY <1>8, <1>10, GoneKeeps DEF DeleteFound
<1>11. CASE UNCHANGED vars
  BY <1>8, <1>11 DEF vars
<1> QED
  BY <1>1, <1>2, <1>3, <1>4, <1>5, <1>6, <1>7, <1>9, <1>10, <1>11 DEF Next

LEMMA SearchAlways == Spec => []SearchInv
BY SearchStarts, SearchStep, PTL DEF Spec

\* SearchComplete: a search that has come to its end (SearchNext of spybdos.h,
\* Globor) has reported every matching file that was there all the time.
THEOREM NothingMissed == Spec => []SearchComplete
<1>1. SearchInv => SearchComplete
  BY DEF SearchInv, Left, SearchComplete
<1> QED
  BY <1>1, SearchAlways, PTL

\* ReportedRight: what is reported was there at some time of this
\* very search and matches its pattern, and nothing is reported twice unless
\* others have deleted it.
THEOREM NothingMadeUp == Spec => []ReportedRight
<1>1. SearchInv => ReportedRight
  BY DEF SearchInv, Trail, Once, ReportedRight
<1> QED
  BY <1>1, SearchAlways, PTL

-----------------------------------------------------------------------------
(* What a program reaches under a name that was reported.                  *)

Plain(n) == n.dot /\ (folds \/ n.upper)

LEMMA Flags ==
  ASSUME NEW n \in HostNames
  PROVE  n.dot \in BOOLEAN /\ n.upper \in BOOLEAN
BY DirAssumption

\* extractFileName writes capitals and a dot, so a plain name leads to itself.
LEMMA PlainReached ==
  ASSUME TypeOK, NEW n \in dir
  PROVE  /\ Plain(n) => n \in Reached(n) /\ \A m \in Reached(n) : Same(m, n)
         /\ ~Plain(n) => n \notin Reached(n)
<1> DEFINE f == FileName(Dos(n))
<1>1. f.stem = n.stem /\ f.ext = n.ext /\ (f.dot <=> TRUE) /\ (f.upper <=> TRUE)
  BY DEF FileName, Dos
<1>2. f.dot = TRUE /\ f.upper = TRUE
  BY DEF FileName
<1>3. \A m \in dir : m.dot \in BOOLEAN /\ m.upper \in BOOLEAN
  BY Flags DEF TypeOK
<1>4. n \in dir
  OBVIOUS
<1>5. Reached(n) = { m \in dir : Same(f, m) }
  BY DEF Reached, Named
<1> HIDE DEF f
<1>6. \A m \in dir : Same(f, m) <=> m.stem = n.stem /\ m.ext = n.ext /\ Plain(m)
  <2> SUFFICES ASSUME NEW m \in dir
               PROVE  Same(f, m) <=> m.stem = n.stem /\ m.ext = n.ext /\ Plain(m)
    OBVIOUS
  <2>1. /\ (f.dot = m.dot) <=> m.dot
        /\ (f.upper = m.upper) <=> m.upper
    BY <1>2, <1>3, Zenon
  <2>2. /\ f.stem = m.stem <=> m.stem = n.stem
        /\ f.ext = m.ext <=> m.ext = n.ext
    BY <1>1
  <2> QED
    BY <2>1, <2>2, Zenon DEF Same, Plain
<1>7. \A m \in dir : m.stem = n.stem /\ m.ext = n.ext /\ Plain(m) /\ Plain(n) => Same(m, n)
  <2> SUFFICES ASSUME NEW m \in dir, m.stem = n.stem, m.ext = n.ext, Plain(m), Plain(n)
               PROVE  Same(m, n)
    OBVIOUS
  <2>1. m.dot = n.dot /\ (folds \/ m.upper = n.upper)
    BY <1>3, <1>4, Zenon DEF Plain
  <2> QED
    BY <2>1, Zenon DEF Same
<1> QED
  BY <1>4, <1>5, <1>6, <1>7

LEMMA UseStep ==
  ASSUME TypeOK, UNCHANGED folds, NEW n, n # NoName, NEW m, NEW k,
         used'.asked = n, used'.got = m, used'.here = (n \in dir),
         \/ m \in Reached(n)
         \/ m = NoName /\ (used'.free > 0 => Reached(n) = {})
  PROVE  FoundReached'
<1> SUFFICES ASSUME n \in dir, used'.free > 0
             PROVE  /\ Plain(n) => Same(m, n)
                    /\ ~Plain(n) => m # n
  <2>1. FoundReached' =
          ((n # NoName /\ used'.here /\ used'.free > 0) =>
             /\ (n.dot /\ (folds' \/ n.upper)) => Same(m, n)'
             /\ ~(n.dot /\ (folds' \/ n.upper)) => m # n)
    BY DEF FoundReached
  <2>2. Same(m, n)' = Same(m, n)
    BY DEF Same
  <2> QED
    BY <2>1, <2>2 DEF Plain
<1>1. CASE m \in Reached(n)
  BY <1>1, PlainReached
<1>2. CASE m = NoName /\ Reached(n) = {}
  BY <1>2, PlainReached
<1> QED
  BY <1>1, <1>2

LEMMA FoundStep == TypeOK /\ FoundReached /\ [Next]_vars => FoundReached'
<1> SUFFICES ASSUME TypeOK, FoundReached, [Next]_vars PROVE FoundReached'
  OBVIOUS
<1> USE DEF search, history
<1>1. CASE Restart \/ SearchFirst
  <2>1. used' = NoUse
    BY <1>1 DEF Restart, SearchFirst
  <2> QED
    BY <2>1 DEF FoundReached, NoUse
<1>2. CASE OpenFound
  <2> DEFINE n == reply.found
  <2>1. n # NoName /\ folds' = folds
    BY <1>2 DEF OpenFound
  <2>2. \A m : used' = Use(n, m) => /\ used'.asked = n /\ used'.got = m
                                    /\ used'.here = (n \in dir) /\ used'.free = free
    BY DEF Use
  <2>3. CASE free > 0 /\ Reached(n) # {}
    <3>1. PICK m \in Reached(n) : used' = Use(n, m)
      BY <1>2, <2>3 DEF OpenFound
    <3>2. used'.asked = n /\ used'.got = m /\ used'.here = (n \in dir)
      BY <2>2, <3>1
    <3> HIDE DEF n
    <3> QED
      BY <2>1, <3>1, <3>2, UseStep
  <2>4. CASE ~(free > 0 /\ Reached(n) # {})
    <3>1. used' = Use(n, NoName)
      BY <1>2, <2>4 DEF OpenFound
    <3>2. /\ used'.asked = n /\ used'.got = NoName /\ used'.here = (n \in dir)
          /\ used'.free > 0 => Reached(n) = {}
      BY <2>2, <2>4, <3>1
    <3> HIDE DEF n
    <3> QED
      BY <2>1, <3>2, UseStep
  <2> QED
    BY <2>3, <2>4
<1>3. CASE DeleteFound
  <2> DEFINE n == reply.found
  <2>1. n # NoName /\ folds' = folds
    BY <1>3 DEF DeleteFound
  <2>2. \A m : used' = [Use(n, m) EXCEPT !.free = 1] =>
                 used'.asked = n /\ used'.got = m /\ used'.here = (n \in dir)
    BY DEF Use
  <2>3. CASE Reached(n) = {}
    <3>1. used' = [Use(n, NoName) EXCEPT !.free = 1]
      BY <1>3, <2>3 DEF DeleteFound
    <3>2. used'.asked = n /\ used'.got = NoName /\ used'.here = (n \in dir)
      BY <2>2, <3>1
    <3> HIDE DEF n
    <3> QED
      BY <2>1, <2>3, <3>2, UseStep
  <2>4. CASE Reached(n) # {}
    <3>1. PICK m \in Reached(n) : used' = [Use(n, m) EXCEPT !.free = 1]
      BY <1>3, <2>4 DEF DeleteFound
    <3>2. used'.asked = n /\ used'.got = m /\ used'.here = (n \in dir)
      BY <2>2, <3>1
    <3> HIDE DEF n
    <3> QED
      BY <2>1, <3>1, <3>2, UseStep
  <2> QED
    BY <2>3, <2>4
<1>4. CASE \/ HostCreate \/ HostDelete \/ SearchNext \/ Read \/ Size \/ UNCHANGED vars
  <2>1. used' = used /\ folds' = folds
    BY <1>4 DEF HostCreate, HostDelete, SearchNext, Read, Size, vars
  <2> QED
    BY <2>1 DEF FoundReached, Same
<1> QED
  BY <1>1, <1>2, <1>3, <1>4 DEF Next

\* FoundReached: for every set of host names, the name that Util::dosname reports
\* leads back (extractFileName) to the file found exactly if that is in capitals,
\* or the host folds names, and has a dot.
THEOREM NamesLeadBack == Spec => []FoundReached
<1>1. Init => FoundReached
  <2> SUFFICES ASSUME Init PROVE FoundReached
    OBVIOUS
  <2>1. used = NoUse
    BY DEF Init
  <2> QED
    BY <2>1 DEF FoundReached, NoUse
<1>2. TypeInv => TypeOK
  BY DEF TypeInv
<1> QED
  BY <1>1, <1>2, FoundStep, TypeStarts, TypeStep, PTL DEF Spec

LEMMA SizeStep == SizeKnown /\ [Next]_vars => SizeKnown'
<1> SUFFICES ASSUME SizeKnown, [Next]_vars PROVE SizeKnown'
  OBVIOUS
<1>1. CASE Size
  <2>1. /\ reply'.sized = (free > 0 /\ Named(entry) # {})
        /\ reply'.here = (Named(entry) # {}) /\ reply'.free = free
    BY <1>1 DEF Size
  <2> QED
    BY <2>1, Zenon DEF SizeKnown
<1>2. CASE reply' = reply
  BY <1>2 DEF SizeKnown
<1>3. CASE reply' = NoReply
  BY <1>3 DEF SizeKnown, NoReply
<1> QED
  BY <1>1, <1>2, <1>3 DEF Next, vars, history, search, HostCreate, HostDelete, Restart, SearchFirst,
     SearchNext, Read, OpenFound, DeleteFound

\* SizeKnown: internalGetFileSize gives the size of what match() has accepted, and
\* -1 only for a file that is gone or when no handle is left.
THEOREM SizesTold == Spec => []SizeKnown
<1>1. Init => SizeKnown
  BY DEF Init, SizeKnown, NoReply
<1> QED
  BY <1>1, SizeStep, PTL DEF Spec
=============================================================================
