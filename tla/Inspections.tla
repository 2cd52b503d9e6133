---------------------------- MODULE Inspections -----------------------------
(* What is read of LemmaScript outside a proof: the inspections of standalone *)
(* sources, which are kept for a while (sourceInfo), and the search for the   *)
(* sources whose proof a changed `.dfy` is (proofSources).                    *)
EXTENDS Naturals, Sequences, FiniteSets, SequencesExt

CONSTANTS Sources,    \* the standalone sources inspected
          Askers,     \* who inspects at once
          CacheLimit, \* how many inspections are kept (32 in the code)
          MaxAsk,     \* bound on the inspections
          Dirs,       \* the folder names of a project
          Hidden,     \* the ones the walk leaves out: dependencies, builds
          MaxDepth,   \* how deep its folders are
          MaxFiles    \* bound on its sources of one name

Nobody == "nobody"
Folders == UNION {[1..n -> Dirs] : n \in 0..MaxDepth}

VARIABLES cache,   \* sourceInfos, oldest first
          asked,   \* the source each asker inspects, Nobody when none
          configs, \* the folder each lemmascript.json stands in, and its proof-dir
          files,   \* the folders that hold a source of the proof's name
          proof,   \* the folder of the changed proof
          known,   \* the sources proved anyway
          left,    \* the candidates still to ask about
          found,   \* the sources found
          unsure,  \* candidates `lsc config` gave no answer for
          asks

search == <<configs, files, proof, known>>
vars == <<cache, asked, search, left, found, unsure, asks>>

Info(s, whole) == [of |-> s, whole |-> whole]

-----------------------------------------------------------------------------
(* sourceInfo: a source is inspected in a folder of its own, several at once. *)
(* Only an inspection read whole and not stopped is kept; the oldest one      *)
(* makes room, even when another asker has kept this source meanwhile.        *)
Asks(a) ==
  /\ asked[a] = Nobody /\ asks < MaxAsk
  /\ \E s \in Sources :
       /\ ~\E k \in DOMAIN cache : cache[k].key = s
       /\ asked' = [asked EXCEPT ![a] = s]
  /\ asks' = asks + 1
  /\ UNCHANGED <<cache, search, left, found, unsure>>

MakesRoom == IF Len(cache) >= CacheLimit THEN Tail(cache) ELSE cache
KeepsAnother(s, info) == Append(MakesRoom, [key |-> s, info |-> info])
Keeps(s, info) ==
  IF \E k \in DOMAIN MakesRoom : MakesRoom[k].key = s
  THEN [k \in DOMAIN MakesRoom |-> IF MakesRoom[k].key = s THEN [key |-> s, info |-> info] ELSE MakesRoom[k]]
  ELSE Append(MakesRoom, [key |-> s, info |-> info])
Worth(info, aborted) == info.whole /\ ~aborted
Answers(a) ==
  /\ asked[a] # Nobody
  /\ \E whole, aborted \in BOOLEAN :
       LET info == Info(asked[a], whole)
       IN  cache' = IF Worth(info, aborted) THEN Keeps(asked[a], info) ELSE cache
  /\ asked' = [asked EXCEPT ![a] = Nobody]
  /\ UNCHANGED <<search, left, found, unsure, asks>>

-----------------------------------------------------------------------------
Under(folder, at) == Len(at) <= Len(folder) /\ SubSeq(folder, 1, Len(at)) = at
Below(folder, at) == SubSeq(folder, Len(at) + 1, Len(folder))

(* Where LemmaScript keeps the proof of a source in `folder`: under the       *)
(* proof-dir of the nearest lemmascript.json above it, else beside it.        *)
Above(folder) == {c \in configs : Under(folder, c.at)}
ArtifactDir(folder) ==
  IF Above(folder) = {} THEN folder
  ELSE LET c == CHOOSE c \in Above(folder) : \A d \in Above(folder) : Len(d.at) <= Len(c.at)
       IN  IF c.dir = Nobody THEN folder ELSE c.at \o <<c.dir>> \o Below(folder, c.at)

(* projectFiles: the walk finds a configuration unless a hidden folder holds it. *)
Walked(folder) == Range(folder) \cap Hidden = {}

CandidatesBeside == {proof}

(* proofSources: the source beside the proof, and the one each configuration  *)
(* of the project mirrors there.                                              *)
Candidates ==
  {proof} \cup {c.at \o Below(proof, c.at \o <<c.dir>>) :
                  c \in {c \in configs : Walked(c.at) /\ c.dir # Nobody /\ Under(proof, c.at \o <<c.dir>>)}}

Init ==
  /\ cache = <<>> /\ asked = [a \in Askers |-> Nobody] /\ asks = 0
  /\ \E at \in SUBSET Folders : /\ Cardinality(at) <= 2
                                /\ \E dir \in [at -> Dirs \cup {Nobody}] : configs = {[at |-> f, dir |-> dir[f]] : f \in at}
  /\ files \in {fs \in SUBSET Folders : Cardinality(fs) <= MaxFiles} /\ proof \in Folders
  /\ known \in SUBSET files /\ Cardinality(known) <= 1
  /\ left = Candidates /\ found = {} /\ unsure = {}

(* Each candidate that is there and not proved anyway is asked about, and it  *)
(* counts when its proof is kept where the changed one lies.                  *)
AsksWhere(folder) ==
  /\ folder \in left
  /\ left' = left \ {folder}
  /\ \/ /\ folder \in files \ known /\ ArtifactDir(folder) = proof
        /\ found' = found \cup {folder} /\ UNCHANGED unsure
     \/ /\ folder \in files \ known
        /\ unsure' = unsure \cup {folder} /\ UNCHANGED found
     \/ /\ folder \notin files \ known \/ ArtifactDir(folder) # proof
        /\ UNCHANGED <<found, unsure>>
  /\ UNCHANGED <<cache, asked, search, asks>>

Next ==
  \/ \E a \in Askers : Asks(a) \/ Answers(a)
  \/ \E folder \in Folders : AsksWhere(folder)
Spec == Init /\ [][Next]_vars

-----------------------------------------------------------------------------
TypeOK ==
  /\ asked \in [Askers -> Sources \cup {Nobody}]
  /\ {proof} \cup files \cup left \cup found \cup unsure \subseteq Folders

(* What is kept of a source is a whole inspection of that very source, each   *)
(* source at most once, and never more than the limit, however the askers     *)
(* cross.                                                                     *)
CacheIsTrue ==
  /\ Len(cache) <= CacheLimit
  /\ \A k \in DOMAIN cache :
       /\ cache[k].info = Info(cache[k].key, TRUE)
       /\ \A j \in DOMAIN cache : cache[j].key = cache[k].key => j = k

(* A changed proof is followed to exactly the sources that keep their proof   *)
(* there: none is missed, unless it is proved anyway, `lsc config` gave no    *)
(* answer, or its configuration stands in a folder the walk leaves out.       *)
EverySourceIsFound ==
  left = {} =>
    /\ found \subseteq {f \in files : ArtifactDir(f) = proof}
    /\ \A f \in files \ (known \cup unsure \cup found) :
         ArtifactDir(f) = proof => \E c \in configs : ~Walked(c.at)

Inv == TypeOK /\ CacheIsTrue /\ EverySourceIsFound
=============================================================================
