-------------------------- MODULE SettingsFile_proofs --------------------------
(***************************************************************************)
(* Proofs about SettingsFile, for any tables: what the parsers guarantee   *)
(* of the values they load, what a section's part of config_save must      *)
(* write for nothing the operator set to be lost, and what its losses are  *)
(* then.  The conditions on the tables are definitions below; each theorem *)
(* names those it needs, and Sections_proofs has tables that meet them.    *)
(***************************************************************************)
EXTENDS SettingsFile, FiniteSetTheorems, TLAPS

\* One value for each setting, and numbers in the fields of a numeric type.
Shaped(s, c) == DOMAIN c = Settings(s) /\ c = [k \in Settings(s) |-> c[k]]
IsSettings(s, c) ==
    /\ Shaped(s, c)
    /\ \A k \in Settings(s) : c[k] # Wrong /\ (IsNumber(Kind(s, k)) => c[k] \in Int)

\* A text of the section: under a key of a number is a number, or no number at all.
IsDocument(s, doc) ==
    /\ DOMAIN doc \subseteq Settings(s)
    /\ \A k \in DOMAIN doc : IsNumber(Kind(s, k)) => doc[k] \in Int \cup {Wrong}

\* The parser takes what config_save writes for v.
Takes(s, k, v) == Accepts(Kind(s, k), Rendered(Kind(s, k), v))

\* A value that its own text gives back, or that needs none.
Stable(s, k, v) ==
    \/ v = Default(s, k)
    \/ Takes(s, k, v) /\ Assigned(Kind(s, k), Rendered(Kind(s, k), v)) = v

InBounds(s, k, v) == v = Default(s, k) \/ Bounded(Kind(s, k), v)

\* What a load may give a setting.
Loadable(s, k, v) ==
    /\ v # Wrong
    /\ IsNumber(Kind(s, k)) => v \in Int
    /\ Stable(s, k, v)
    /\ InBounds(s, k, v)

-----------------------------------------------------------------------------
(* The conditions on the tables.                                           *)

\* config_save writes keys of the section only.
WritesItsOwn(s) ==
    \A c : Shaped(s, c) => Written(s, c) \subseteq Settings(s)

\* What a section starts from, and what a document forces, a load may give.
StartsLoadable(s) ==
    \A doc : IsDocument(s, doc) =>
        \A k \in Settings(s) :
            /\ Loadable(s, k, Start(s, doc)[k])
            /\ k \in DOMAIN Forced(s, doc) => Loadable(s, k, Forced(s, doc)[k])

\* A setting that is kept, and that a save omits or writes as a value the parser
\* does not take, is what the parser starts from on the saved document.
OmitsOnlyTheStart(s) ==
    \A c : IsSettings(s, c) =>
        \A k \in Settings(s) \ Refused(s, c) :
            k \notin Written(s, c) \/ ~Takes(s, k, c[k])
            => Start(s, Save(s, c))[k] = Kept(s, k, c[k])

\* A default that is written is read again as it was.
RereadsDefaults(s) ==
    \A c : IsSettings(s, c) =>
        \A k \in Written(s, c) \cap Settings(s) :
            c[k] = Default(s, k) /\ Takes(s, k, c[k])
            => Assigned(Kind(s, k), Rendered(Kind(s, k), c[k])) = c[k]

\* A listed loss is one: it is not written, or as what the parser does not take.
LosesTheOmitted(s) ==
    \A c : IsSettings(s, c) =>
        /\ Lost(s, c) \subseteq Settings(s)
        /\ \A k \in Lost(s, c) \ DOMAIN Forced(s, Save(s, c)) :
              k \notin Written(s, c) \/ ~Takes(s, k, c[k])

\* The settings a document gives, and their text.
Reread(s, doc) == Save(s, Load(s, doc))

\* A loss is of what the parser would not have started from anyway.
LosesForGood(s) ==
    \A doc : IsDocument(s, doc) /\ Loads(s, doc) =>
        \A k \in Lost(s, Load(s, doc)) \ DOMAIN Forced(s, Reread(s, doc)) :
            Start(s, Reread(s, doc))[k] # Load(s, doc)[k]

\* What a saved document forces, it was saved with.
ForcesTheSame(s) ==
    \A doc : IsDocument(s, doc) /\ Loads(s, doc) =>
        \A k \in Settings(s) \cap DOMAIN Forced(s, Reread(s, doc)) :
            Forced(s, Reread(s, doc))[k] = Load(s, doc)[k]

\* A saved document loads, and has nothing to lose but what it forces.
LosesOnce(s) ==
    \A doc : IsDocument(s, doc) /\ Loads(s, doc) =>
        LET once == Reread(s, doc)
        IN  /\ Loads(s, once)
            /\ Lost(s, Load(s, once)) \subseteq DOMAIN Forced(s, Reread(s, once))

\* What makes a save faithful to what was set, but for the listed losses; and what
\* makes the list right.
Faithful(s) ==
    WritesItsOwn(s) /\ StartsLoadable(s) /\ OmitsOnlyTheStart(s) /\ RereadsDefaults(s)
LossesListed(s) == LosesTheOmitted(s) /\ LosesForGood(s) /\ ForcesTheSame(s)

-----------------------------------------------------------------------------
(* What a parser assigns.                                                  *)

\* It is what the users of the setting may meet.
LEMMA AssignedIsBounded ==
    ASSUME NEW s \in Sections, NEW k \in Settings(s), NEW v,
           IsNumber(Kind(s, k)) => v \in Int \cup {Wrong},
           Accepts(Kind(s, k), v)
    PROVE  Bounded(Kind(s, k), Assigned(Kind(s, k), v))
<1> DEFINE kind == Kind(s, k)
<1>1. CASE kind[1] = "clamped"
  <2>1. v \in Int
    BY <1>1 DEF Accepts, IsNumber
  <2>2. kind[2] \in Int /\ kind[3] \in Int /\ kind[2] <= kind[3]
    BY <1>1, RangeAssumption
  <2> HIDE DEF kind
  <2>3. Assigned(kind, v) \in kind[2]..kind[3]
    BY <1>1, <2>1, <2>2 DEF Assigned
  <2> QED BY <1>1, <2>3 DEF Bounded, kind
<1>2. CASE kind[1] # "clamped"
  <2>1. Accepts(kind, v)
    OBVIOUS
  <2> HIDE DEF kind
  <2> QED BY <1>2, <2>1 DEF Accepts, Assigned, Bounded, kind
<1> QED BY <1>1, <1>2

\* And what it would assign again from the text of that.
LEMMA AssignedIsStable ==
    ASSUME NEW s \in Sections, NEW k \in Settings(s), NEW v,
           IsNumber(Kind(s, k)) => v \in Int \cup {Wrong},
           Accepts(Kind(s, k), v)
    PROVE  /\ IsNumber(Kind(s, k)) => Assigned(Kind(s, k), v) \in Int
           /\ Stable(s, k, Assigned(Kind(s, k), v))
           /\ Assigned(Kind(s, k), v) # Wrong
<1> DEFINE kind == Kind(s, k)
<1>w. Wrong \notin Int
  BY WrongAssumption
<1>a. Accepts(kind, v)
  OBVIOUS
<1>b. IsNumber(kind) => v \in Int \cup {Wrong}
  OBVIOUS
<1>c. SUFFICES /\ IsNumber(kind) => Assigned(kind, v) \in Int
               /\ Accepts(kind, Rendered(kind, Assigned(kind, v)))
               /\ Assigned(kind, Rendered(kind, Assigned(kind, v))) = Assigned(kind, v)
               /\ Assigned(kind, v) # Wrong
  BY DEF Stable, Takes
<1>1. CASE kind[1] = "clamped"
  <2>1. v \in Int
    BY <1>1, <1>a, <1>b DEF Accepts, IsNumber
  <2>2. kind[2] \in Int /\ kind[3] \in Int /\ kind[2] <= kind[3]
    BY <1>1, RangeAssumption
  <2> HIDE DEF kind
  <2> DEFINE w == Assigned(kind, v)
  <2>3. w \in kind[2]..kind[3]
    BY <1>1, <2>1, <2>2 DEF Assigned
  <2> HIDE DEF w
  <2>4. Rendered(kind, w) = w
    BY <1>1 DEF Rendered
  <2>w. w # Wrong
    BY <1>w, <2>2, <2>3
  <2>5. Accepts(kind, w)
    BY <1>1, <2>w DEF Accepts
  <2>6. Assigned(kind, w) = w
    BY <1>1, <2>2, <2>3 DEF Assigned
  <2> QED BY <2>2, <2>3, <2>4, <2>w, <2>5, <2>6 DEF w
<1>2. CASE kind[1] = "named"
  <2>1. kind[3] # Wrong
    BY <1>2, RangeAssumption
  <2> HIDE DEF kind
  <2> QED BY <1>2, <1>a, <2>1 DEF Assigned, Rendered, Accepts, IsNumber
<1>3. CASE kind[1] \in {"flag", "truth"}
  <2> HIDE DEF kind
  <2> DEFINE w == Assigned(kind, v)
  <2>1. w \in {0, 1}
    BY <1>3, <1>a DEF Assigned, Accepts
  <2> HIDE DEF w
  <2>2. Rendered(kind, w) = w /\ Assigned(kind, w) = w
    BY <1>3, <2>1 DEF Assigned, Rendered
  <2>3. w # Wrong
    BY <1>w, <2>1
  <2>4. Accepts(kind, w)
    BY <1>3, <2>1, <2>3 DEF Accepts
  <2> QED BY <2>1, <2>2, <2>3, <2>4 DEF w
<1>5. CASE kind[1] = "switch"
  <2> HIDE DEF kind
  <2> DEFINE w == Assigned(kind, v)
  <2>1. w \in {0, 1}
    BY <1>5, <1>a DEF Assigned, Accepts
  <2> HIDE DEF w
  <2>2. Rendered(kind, w) = w /\ Assigned(kind, w) = w
    BY <1>5, <2>1 DEF Assigned, Rendered
  <2>3. w # Wrong
    BY <1>w, <2>1
  <2>4. Accepts(kind, w)
    BY <1>5, <2>1, <2>3 DEF Accepts
  <2> QED BY <2>1, <2>2, <2>3, <2>4 DEF w
<1>4. CASE kind[1] \notin {"clamped", "named", "flag", "truth", "switch"}
  <2> HIDE DEF kind
  <2>1. Assigned(kind, v) = v /\ Rendered(kind, v) = v
    BY <1>4 DEF Assigned, Rendered
  <2>2. v # Wrong
    BY <1>4, <1>a DEF Accepts
  <2> QED BY <1>a, <1>b, <2>1, <2>2
<1> QED BY <1>1, <1>2, <1>3, <1>4, <1>5

\* Whatever the document, a load gives a setting what a load may give it.
LEMMA LoadIsLoadable ==
    ASSUME NEW s \in Sections, StartsLoadable(s), NEW doc, IsDocument(s, doc),
           NEW k \in Settings(s)
    PROVE  Loadable(s, k, Load(s, doc)[k])
<1>1. CASE k \in DOMAIN Forced(s, doc)
  BY <1>1 DEF Load, Parsed, Settings, Kind, StartsLoadable
<1>2. CASE k \notin DOMAIN Forced(s, doc) /\ k \in DOMAIN doc /\ Accepts(Kind(s, k), doc[k])
  <2>1. Load(s, doc)[k] = Assigned(Kind(s, k), doc[k])
    BY <1>2 DEF Load, Parsed, Settings, Kind
  <2>2. IsNumber(Kind(s, k)) => doc[k] \in Int \cup {Wrong}
    BY <1>2 DEF IsDocument
  <2>3. Bounded(Kind(s, k), Assigned(Kind(s, k), doc[k]))
    BY <1>2, <2>2, AssignedIsBounded
  <2>4. /\ IsNumber(Kind(s, k)) => Assigned(Kind(s, k), doc[k]) \in Int
        /\ Stable(s, k, Assigned(Kind(s, k), doc[k]))
        /\ Assigned(Kind(s, k), doc[k]) # Wrong
    BY <1>2, <2>2, AssignedIsStable
  <2> QED BY <2>1, <2>3, <2>4 DEF Loadable, InBounds
<1>3. CASE /\ k \notin DOMAIN Forced(s, doc)
           /\ ~(k \in DOMAIN doc /\ Accepts(Kind(s, k), doc[k]))
  BY <1>3 DEF Load, Parsed, Settings, Kind, StartsLoadable
<1> QED BY <1>1, <1>2, <1>3

-----------------------------------------------------------------------------
(* Shapes and types of one load and one save.                              *)

LEMMA LoadIsShaped ==
    ASSUME NEW s, NEW doc
    PROVE  Shaped(s, Load(s, doc))
BY DEF Shaped, Load, Parsed, Settings, Kind

LEMMA AfterIsShaped ==
    ASSUME NEW s, NEW w, NEW c
    PROVE  Shaped(s, After(s, w, c))
BY DEF Shaped, After

LEMMA LoadIsSettings ==
    ASSUME NEW s \in Sections, StartsLoadable(s), NEW doc, IsDocument(s, doc)
    PROVE  IsSettings(s, Load(s, doc))
BY LoadIsShaped, LoadIsLoadable DEF IsSettings, Loadable

LEMMA SaveType ==
    ASSUME NEW s \in Sections, WritesItsOwn(s), NEW c, Shaped(s, c)
    PROVE  DOMAIN Save(s, c) \subseteq Settings(s)
BY DEF WritesItsOwn, Save

LEMMA SaveIsDocument ==
    ASSUME NEW s \in Sections, WritesItsOwn(s), NEW c, IsSettings(s, c)
    PROVE  IsDocument(s, Save(s, c))
<1>1. DOMAIN Save(s, c) \subseteq Settings(s)
  BY SaveType DEF IsSettings
<1>2. ASSUME NEW k \in DOMAIN Save(s, c), IsNumber(Kind(s, k))
      PROVE  Save(s, c)[k] \in Int
  <2>1. c[k] \in Int
    BY <1>1, <1>2 DEF IsSettings
  <2>2. Save(s, c)[k] = Rendered(Kind(s, k), c[k])
    BY <1>2 DEF Save
  <2>3. Rendered(Kind(s, k), c[k]) \in Int
    <3> DEFINE kind == Kind(s, k)
    <3>1. IsNumber(kind)
      BY <1>2
    <3> HIDE DEF kind
    <3>2. Rendered(kind, c[k]) \in Int
      BY <2>1, <3>1 DEF Rendered, IsNumber
    <3> QED BY <3>2 DEF kind
  <2> QED BY <2>2, <2>3
<1> QED BY <1>1, <1>2 DEF IsDocument

-----------------------------------------------------------------------------
(* One save and the load after it.                                         *)

\* What a save does not lose, the next load finds as the parser keeps it.
LEMMA SavedIsKept ==
    ASSUME NEW s \in Sections, OmitsOnlyTheStart(s), RereadsDefaults(s),
           NEW c, IsSettings(s, c),
           NEW k \in Settings(s) \ Refused(s, c),
           k \notin DOMAIN Forced(s, Save(s, c))
    PROVE  Load(s, Save(s, c))[k] = Kept(s, k, c[k])
<1> DEFINE saved == Save(s, c)
           told == Rendered(Kind(s, k), c[k])
<1>1. DOMAIN saved = Written(s, c)
  BY DEF Save
<1>2. k \in Settings(s)
  OBVIOUS
<1>3. CASE k \in Written(s, c) /\ Takes(s, k, c[k])
  <2>1. saved[k] = told
    BY <1>3 DEF Save
  <2>2. Load(s, saved)[k] = Assigned(Kind(s, k), told)
    BY <1>1, <1>2, <1>3, <2>1 DEF Load, Parsed, Settings, Kind, Takes
  <2>3. CASE c[k] = Default(s, k)
    <3>1. Assigned(Kind(s, k), told) = Default(s, k)
      BY <1>2, <1>3, <2>3 DEF RereadsDefaults
    <3> QED BY <2>2, <2>3, <3>1 DEF Kept
  <2>4. CASE c[k] # Default(s, k)
    BY <2>2, <2>4 DEF Kept
  <2> QED BY <2>3, <2>4
<1>4. CASE ~(k \in Written(s, c) /\ Takes(s, k, c[k]))
  <2>1. Start(s, saved)[k] = Kept(s, k, c[k])
    BY <1>4 DEF OmitsOnlyTheStart
  <2>2. ~(k \in DOMAIN saved /\ Accepts(Kind(s, k), saved[k]))
    BY <1>1, <1>4 DEF Save, Takes
  <2> QED BY <1>2, <2>1, <2>2 DEF Load, Parsed, Settings, Kind
<1> QED BY <1>3, <1>4

\* What the settings asked for become, they are in the file.
LEMMA SavedIsWanted ==
    ASSUME NEW s \in Sections, OmitsOnlyTheStart(s), RereadsDefaults(s),
           NEW c, IsSettings(s, c)
    PROVE  Load(s, Save(s, c)) = After(s, c, c)
<1> DEFINE saved == Save(s, c)
           decided == Refused(s, c) \cup DOMAIN Forced(s, saved)
<1>1. ASSUME NEW k \in Settings(s)
      PROVE  Load(s, saved)[k] = IF k \in decided THEN Load(s, saved)[k] ELSE Kept(s, k, c[k])
  BY <1>1, SavedIsKept
<1>2. Shaped(s, Load(s, saved))
  BY LoadIsShaped
<1> HIDE DEF decided
<1>3. Load(s, saved) = [k \in Settings(s) |-> IF k \in decided THEN Load(s, saved)[k]
                                              ELSE Kept(s, k, c[k])]
  BY <1>1, <1>2 DEF Shaped
<1> QED BY <1>3 DEF After, decided

\* A setting that is neither lost nor forced comes back as it was, if its text
\* gives it back.
LEMMA SavedIsBack ==
    ASSUME NEW s \in Sections, OmitsOnlyTheStart(s), RereadsDefaults(s),
           NEW c, IsSettings(s, c), NEW k \in Settings(s) \ Lost(s, c),
           k \notin DOMAIN Forced(s, Save(s, c)), Stable(s, k, c[k])
    PROVE  Load(s, Save(s, c))[k] = c[k]
<1>1. Legal(s, k, c[k]) /\ Kept(s, k, c[k]) = c[k]
  BY DEF Legal, Kept, Stable, Takes
<1>2. k \notin Refused(s, c)
  BY <1>1 DEF Refused
<1> QED BY <1>1, <1>2, SavedIsKept

\* Whether it is lost or not, it comes back as it was, or as the parser starts.
LEMMA SavedIsBackOrStart ==
    ASSUME NEW s \in Sections, RereadsDefaults(s),
           NEW c, IsSettings(s, c), NEW k \in Settings(s),
           k \notin DOMAIN Forced(s, Save(s, c)), Stable(s, k, c[k])
    PROVE  Load(s, Save(s, c))[k] \in {c[k], Start(s, Save(s, c))[k]}
<1> DEFINE saved == Save(s, c)
           told == Rendered(Kind(s, k), c[k])
<1>1. DOMAIN saved = Written(s, c)
  BY DEF Save
<1>2. CASE k \in Written(s, c) /\ Takes(s, k, c[k])
  <2>1. saved[k] = told
    BY <1>2 DEF Save
  <2>2. Load(s, saved)[k] = Assigned(Kind(s, k), told)
    BY <1>1, <1>2, <2>1 DEF Load, Parsed, Settings, Kind, Takes
  <2>3. Assigned(Kind(s, k), told) = c[k]
    BY <1>2 DEF Stable, RereadsDefaults
  <2> QED BY <2>2, <2>3
<1>3. CASE ~(k \in Written(s, c) /\ Takes(s, k, c[k]))
  <2>1. ~(k \in DOMAIN saved /\ Accepts(Kind(s, k), saved[k]))
    BY <1>1, <1>3 DEF Save, Takes
  <2> QED BY <2>1 DEF Load, Parsed, Settings, Kind
<1> QED BY <1>2, <1>3

-----------------------------------------------------------------------------
(* Type correctness.                                                       *)

LEMMA InitType == Init => TypeOK
BY LoadIsShaped, FoundAssumption DEF Init, TypeOK, Shaped

LEMMA EditedType ==
    ASSUME TypeOK, NEW doc, DOMAIN doc \subseteq Settings(section), Edited(doc)
    PROVE  TypeOK'
<1>1. CASE Loads(section, doc)
  BY <1>1, LoadIsShaped DEF Edited, TypeOK, Shaped
<1>2. CASE ~Loads(section, doc)
  BY <1>2 DEF Edited, TypeOK
<1> QED BY <1>1, <1>2

LEMMA NextType ==
    ASSUME TypeOK, WritesItsOwn(section), [Next]_vars
    PROVE  TypeOK'
<1>1. CASE UNCHANGED vars
  BY <1>1 DEF vars, TypeOK, Settings
<1>2. ASSUME NEW k \in Settings(section), NEW v \in Tried(section, k), Set(k, v)
      PROVE  TypeOK'
  <2> DEFINE c == [Fetched EXCEPT ![k] = v]
  <2>1. Shaped(section, c)
    BY DEF Fetched, Load, Parsed, Settings, Kind, Shaped
  <2>2. /\ section' = section
        /\ file' = Save(section, c)
        /\ wanted' = After(section, [wanted EXCEPT ![k] = v], c)
    BY <1>2 DEF Set
  <2> HIDE DEF c
  <2> QED BY <2>1, <2>2, SaveType, AfterIsShaped DEF TypeOK, Shaped
<1>3. ASSUME NEW k \in Settings(section), NEW v \in Tried(section, k), Edit(k, v)
      PROVE  TypeOK'
  <2> DEFINE doc == [j \in DOMAIN file \cup {k} |-> IF j = k THEN v ELSE file[j]]
  <2>1. DOMAIN doc \subseteq Settings(section)
    BY DEF TypeOK
  <2>2. Edited(doc)
    BY <1>3 DEF Edit
  <2> HIDE DEF doc
  <2> QED BY <2>1, <2>2, EditedType
<1>4. ASSUME NEW k \in Settings(section), Erase(k)
      PROVE  TypeOK'
  <2> DEFINE doc == [j \in DOMAIN file \ {k} |-> file[j]]
  <2>1. DOMAIN doc \subseteq Settings(section)
    BY DEF TypeOK
  <2>2. Edited(doc)
    BY <1>4 DEF Erase
  <2> HIDE DEF doc
  <2> QED BY <2>1, <2>2, EditedType
<1>5. CASE SetElsewhere
  <2>1. Shaped(section, Fetched)
    BY LoadIsShaped DEF Fetched
  <2> QED BY <1>5, <2>1, SaveType, AfterIsShaped DEF SetElsewhere, TypeOK, Shaped
<1> QED BY <1>1, <1>2, <1>3, <1>4, <1>5 DEF Next

\* The keys of the file and the settings stay those of the section.
THEOREM TypeCorrect ==
    ASSUME \A s \in Sections : WritesItsOwn(s)
    PROVE  Spec => []TypeOK
<1>1. TypeOK /\ [Next]_vars => TypeOK'
  BY NextType DEF TypeOK
<1> QED BY <1>1, InitType, PTL DEF Spec

\* The numbers in the file are numbers, so those that are loaded are.
FileTyped == IsDocument(section, file)

LEMMA SetIsSettings ==
    ASSUME TypeOK, FileTyped, StartsLoadable(section),
           NEW k \in Settings(section), NEW v \in Tried(section, k), v # Wrong
    PROVE  IsSettings(section, [Fetched EXCEPT ![k] = v])
<1> DEFINE c == [Fetched EXCEPT ![k] = v]
<1>1. Shaped(section, c)
  BY DEF Fetched, Load, Parsed, Settings, Kind, Shaped
<1>2. IsSettings(section, Fetched)
  BY LoadIsSettings DEF Fetched, FileTyped, TypeOK
<1>3. IsNumber(Kind(section, k)) => v \in Int
  BY RangeAssumption DEF TypeOK
<1>4. ASSUME NEW j \in Settings(section), IsNumber(Kind(section, j))
      PROVE  c[j] \in Int
  BY <1>2, <1>3, <1>4 DEF IsSettings, Shaped
<1>5. ASSUME NEW j \in Settings(section)
      PROVE  c[j] # Wrong
  BY <1>2 DEF IsSettings, Shaped
<1> QED BY <1>1, <1>4, <1>5 DEF IsSettings

LEMMA InitTyped == Init => FileTyped
<1> SUFFICES ASSUME Init
             PROVE  IsDocument(section, file)
  BY DEF FileTyped
<1>1. DOMAIN file \subseteq Settings(section)
  BY FoundAssumption DEF Init
<1>2. ASSUME NEW k \in DOMAIN file, IsNumber(Kind(section, k))
      PROVE  file[k] \in Int \cup {Wrong}
  BY <1>1, <1>2, RangeAssumption DEF Init
<1> QED BY <1>1, <1>2 DEF IsDocument

LEMMA NextTyped ==
    ASSUME TypeOK, FileTyped, WritesItsOwn(section), StartsLoadable(section), [Next]_vars
    PROVE  FileTyped'
<1>s. section \in Sections
  BY DEF TypeOK
<1>0. IsSettings(section, Fetched)
  BY <1>s, LoadIsSettings DEF Fetched, FileTyped
<1>1. CASE UNCHANGED vars
  BY <1>1 DEF vars, FileTyped, IsDocument, Settings, Kind
<1>2. ASSUME NEW k \in Settings(section), NEW v \in Tried(section, k), Set(k, v)
      PROVE  FileTyped'
  <2>1. /\ file' = Save(section, [Fetched EXCEPT ![k] = v])
        /\ section' = section
        /\ v # Wrong
    BY <1>2 DEF Set
  <2>2. IsSettings(section, [Fetched EXCEPT ![k] = v])
    BY <2>1, SetIsSettings
  <2>3. IsDocument(section, file')
    BY <1>s, <2>1, <2>2, SaveIsDocument
  <2> QED BY <2>1, <2>3 DEF FileTyped
<1>3. ASSUME NEW k \in Settings(section), NEW v \in Tried(section, k), Edit(k, v)
      PROVE  FileTyped'
  <2>1. IsNumber(Kind(section, k)) => v \in Int \cup {Wrong}
    BY <1>s, RangeAssumption
  <2>2. /\ file' = [j \in DOMAIN file \cup {k} |-> IF j = k THEN v ELSE file[j]]
        /\ section' = section
    BY <1>3 DEF Edit, Edited
  <2>3. IsDocument(section, file')
    BY <2>1, <2>2 DEF IsDocument, FileTyped
  <2> QED BY <2>2, <2>3 DEF FileTyped
<1>4. ASSUME NEW k \in Settings(section), Erase(k)
      PROVE  FileTyped'
  <2>1. /\ file' = [j \in DOMAIN file \ {k} |-> file[j]]
        /\ section' = section
    BY <1>4 DEF Erase, Edited
  <2>2. IsDocument(section, file')
    BY <2>1 DEF IsDocument, FileTyped
  <2> QED BY <2>1, <2>2 DEF FileTyped
<1>5. CASE SetElsewhere
  <2>1. file' = Save(section, Fetched) /\ section' = section
    BY <1>5 DEF SetElsewhere
  <2>2. IsDocument(section, file')
    BY <1>s, <1>0, <2>1, SaveIsDocument
  <2> QED BY <2>1, <2>2 DEF FileTyped
<1> QED BY <1>1, <1>2, <1>3, <1>4, <1>5 DEF Next

LEMMA Typed ==
    ASSUME \A s \in Sections : WritesItsOwn(s) /\ StartsLoadable(s)
    PROVE  Spec => [](TypeOK /\ FileTyped)
<1>1. TypeOK /\ FileTyped /\ [Next]_vars => TypeOK' /\ FileTyped'
  BY NextType, NextTyped DEF TypeOK
<1> QED BY <1>1, InitType, InitTyped, PTL DEF Spec

-----------------------------------------------------------------------------
(* Nothing is loaded out of its bounds.                                    *)

\* Whatever an editor or a setter, which validates nothing, puts in the file, a
\* load gives every setting its default or a value of its bounds.
THEOREM LoadedInRange ==
    ASSUME \A s \in Sections : WritesItsOwn(s) /\ StartsLoadable(s)
    PROVE  Spec => []InRange
<1>1. TypeOK /\ FileTyped => InRange
  BY LoadIsLoadable DEF TypeOK, FileTyped, InRange, Loadable, InBounds
<1> QED BY <1>1, Typed, PTL

-----------------------------------------------------------------------------
(* Nothing asked for is lost.                                              *)

LEMMA EditedSurvives ==
    ASSUME NEW doc, Edited(doc)
    PROVE  Survives'
BY DEF Edited, Survives

LEMMA NextSurvives ==
    ASSUME TypeOK, FileTyped, Faithful(section), Survives, [Next]_vars
    PROVE  Survives'
<1>1. CASE UNCHANGED vars
  BY <1>1 DEF vars, Survives
<1>2. ASSUME NEW k \in Settings(section), NEW v \in Tried(section, k), Set(k, v)
      PROVE  Survives'
  <2> DEFINE c == [Fetched EXCEPT ![k] = v]
  <2>1. IsSettings(section, c)
    BY <1>2, SetIsSettings DEF Set, Faithful
  <2>2. [wanted EXCEPT ![k] = v] = c
    BY <1>2 DEF Set, Survives, Fetched
  <2>3. /\ section' = section
        /\ file' = Save(section, c)
        /\ wanted' = After(section, [wanted EXCEPT ![k] = v], c)
    BY <1>2 DEF Set
  <2> HIDE DEF c
  <2>4. wanted' = After(section, c, c)
    BY <2>2, <2>3
  <2>5. Load(section, Save(section, c)) = After(section, c, c)
    BY <2>1, SavedIsWanted DEF TypeOK, Faithful
  <2> QED BY <2>3, <2>4, <2>5 DEF Survives
<1>3. ASSUME NEW k \in Settings(section), NEW v \in Tried(section, k), Edit(k, v)
      PROVE  Survives'
  BY <1>3, EditedSurvives DEF Edit
<1>4. ASSUME NEW k \in Settings(section), Erase(k)
      PROVE  Survives'
  BY <1>4, EditedSurvives DEF Erase
<1>5. CASE SetElsewhere
  <2>1. IsSettings(section, Fetched)
    BY LoadIsSettings DEF Fetched, FileTyped, TypeOK, Faithful
  <2>2. wanted = Fetched
    BY <1>5 DEF SetElsewhere, Survives, Fetched
  <2>3. Load(section, Save(section, Fetched)) = After(section, Fetched, Fetched)
    BY <2>1, SavedIsWanted DEF TypeOK, Faithful
  <2>4. /\ section' = section
        /\ file' = Save(section, Fetched)
        /\ wanted' = After(section, wanted, Fetched)
    BY <1>5 DEF SetElsewhere
  <2> QED BY <2>2, <2>3, <2>4 DEF Survives
<1> QED BY <1>1, <1>2, <1>3, <1>4, <1>5 DEF Next

\* Whatever sequence of setters, saves of other sections and edits, a restart
\* finds what the operator set, in every table whose config_save omits only what
\* the parser starts from.
THEOREM NothingIsLost ==
    ASSUME \A s \in Sections : Faithful(s)
    PROVE  Spec => []Survives
<1>1. Init => Survives
  BY DEF Init, Survives
<1>2. TypeOK /\ FileTyped /\ Survives /\ [Next]_vars => Survives'
  BY NextSurvives DEF TypeOK
<1>3. Spec => [](TypeOK /\ FileTyped)
  BY Typed DEF Faithful
<1> QED BY <1>1, <1>2, <1>3, PTL DEF Spec

-----------------------------------------------------------------------------
(* What is lost.                                                           *)

\* The settings that a save of what a document gives changes.
Changed(s, doc) == {k \in Settings(s) : Load(s, Reread(s, doc))[k] # Load(s, doc)[k]}

LEMMA ChangedAreLost ==
    ASSUME NEW s \in Sections, Faithful(s), LossesListed(s), NEW doc, IsDocument(s, doc), Loads(s, doc)
    PROVE  Changed(s, doc) = Lost(s, Load(s, doc)) \ DOMAIN Forced(s, Reread(s, doc))
<1> DEFINE c == Load(s, doc)
           saved == Save(s, c)
           forced == DOMAIN Forced(s, saved)
<1>0. saved = Reread(s, doc)
  BY DEF Reread
<1>1. IsSettings(s, c)
  BY LoadIsSettings DEF Faithful
<1>2. ASSUME NEW k \in Settings(s) \cap forced
      PROVE  Load(s, saved)[k] = c[k]
  <2>1. Forced(s, saved)[k] = c[k]
    BY <1>0, <1>2 DEF LossesListed, ForcesTheSame
  <2> QED BY <1>2, <2>1 DEF Load, Parsed, Settings, Kind
<1>3. ASSUME NEW k \in Lost(s, c) \ forced
      PROVE  k \in Settings(s) /\ Load(s, saved)[k] # c[k]
  <2>1. k \in Settings(s) /\ (k \notin Written(s, c) \/ ~Takes(s, k, c[k]))
    BY <1>1, <1>3 DEF LossesListed, LosesTheOmitted
  <2>2. ~(k \in DOMAIN saved /\ Accepts(Kind(s, k), saved[k]))
    BY <2>1 DEF Save, Takes
  <2>3. Load(s, saved)[k] = Start(s, saved)[k]
    BY <1>3, <2>1, <2>2 DEF Load, Parsed, Settings, Kind
  <2>4. Start(s, saved)[k] # c[k]
    BY <1>0, <1>3 DEF LossesListed, LosesForGood
  <2> QED BY <2>1, <2>3, <2>4
<1>4. ASSUME NEW k \in (Settings(s) \ Lost(s, c)) \ forced
      PROVE  Load(s, saved)[k] = c[k]
  <2>1. Stable(s, k, c[k])
    BY LoadIsLoadable DEF Loadable, Faithful
  <2> QED BY <1>1, <1>4, <2>1, SavedIsBack DEF Faithful
<1>5. Changed(s, doc) = {k \in Settings(s) : Load(s, saved)[k] # c[k]}
  BY <1>0 DEF Changed
<1> HIDE DEF c, saved, forced
<1>6. {k \in Settings(s) : Load(s, saved)[k] # c[k]} = Lost(s, c) \ forced
  BY <1>2, <1>3, <1>4
<1> QED BY <1>0, <1>5, <1>6 DEF c, saved, forced

\* The listed losses are exactly what a save of what the file holds changes,
\* whatever setters and editors made of the file.
THEOREM LossesAreKnown ==
    ASSUME \A s \in Sections : Faithful(s) /\ LossesListed(s)
    PROVE  Spec => []LossesKnown
<1>1. ASSUME TypeOK, FileTyped
      PROVE  LossesKnown
  <2> SUFFICES ASSUME Loads(section, file), NEW k \in Settings(section)
               PROVE  Load(section, Save(section, Load(section, file)))[k]
                        # Load(section, file)[k]
                        <=> /\ k \in Lost(section, Load(section, file))
                            /\ k \in DOMAIN Forced(section, Save(section, Load(section, file)))
                                 => Forced(section, Save(section, Load(section, file)))[k]
                                      # Load(section, file)[k]
    BY DEF LossesKnown
  <2>1. Changed(section, file)
          = Lost(section, Load(section, file)) \ DOMAIN Forced(section, Reread(section, file))
    BY <1>1, ChangedAreLost DEF TypeOK, FileTyped
  <2>2. k \in DOMAIN Forced(section, Reread(section, file)) =>
          Forced(section, Reread(section, file))[k] = Load(section, file)[k]
    BY <1>1 DEF TypeOK, FileTyped, LossesListed, ForcesTheSame
  <2> QED BY <2>1, <2>2 DEF Changed, Reread
<1>2. Spec => [](TypeOK /\ FileTyped)
  BY Typed DEF Faithful
<1> QED BY <1>1, <1>2, PTL

\* Nothing more is lost by a second save: once a setter has run, the next ones
\* change only what they set.
THEOREM SavesSettle ==
    ASSUME \A s \in Sections : Faithful(s) /\ LossesListed(s) /\ LosesOnce(s)
    PROVE  Spec => []Settles
<1>1. ASSUME TypeOK, FileTyped, Loads(section, file)
      PROVE  LET once == Reread(section, file)
             IN  Loads(section, once) /\ Load(section, Reread(section, once)) = Load(section, once)
  <2> DEFINE once == Reread(section, file)
             c == Load(section, once)
             again == Load(section, Reread(section, once))
  <2>1. section \in Sections /\ IsDocument(section, file)
    BY <1>1 DEF TypeOK, FileTyped
  <2>2. IsDocument(section, once)
    BY <2>1, LoadIsSettings, SaveIsDocument DEF Faithful, Reread
  <2>3. Loads(section, once) /\ Lost(section, c) \subseteq DOMAIN Forced(section, Reread(section, once))
    BY <1>1, <2>1 DEF LosesOnce
  <2>4. Changed(section, once) = {}
    BY <2>1, <2>2, <2>3, ChangedAreLost
  <2>5. \A k \in Settings(section) : again[k] = c[k]
    BY <2>4 DEF Changed
  <2>6. Shaped(section, c) /\ Shaped(section, again)
    BY LoadIsShaped
  <2> HIDE DEF c, again
  <2>7. again = c
    BY <2>5, <2>6 DEF Shaped
  <2> QED BY <2>3, <2>7 DEF c, again
<1>2. TypeOK /\ FileTyped => Settles
  BY <1>1 DEF Settles, Reread
<1>3. Spec => [](TypeOK /\ FileTyped)
  BY Typed DEF Faithful
<1> QED BY <1>2, <1>3, PTL

-----------------------------------------------------------------------------
(* One setting at a time.                                                  *)

\* The settings with a new value of their own, once the document told is in the
\* place of doc.
Moved(s, doc, told) ==
    LET forced == DOMAIN Forced(s, doc) \cup DOMAIN Forced(s, told)
    IN  {k \in Settings(s) \ forced :
            /\ Load(s, told)[k] # Load(s, doc)[k]
            /\ Load(s, told)[k] # Start(s, told)[k]}

LEMMA AtMostOne ==
    ASSUME NEW k, NEW S, S \subseteq {k}
    PROVE  Cardinality(S) <= 1
<1>1. IsFiniteSet({k}) /\ Cardinality({k}) = 1
  BY FS_Singleton
<1>2. Cardinality(S) <= Cardinality({k})
  BY <1>1, FS_Subset
<1> QED BY <1>1, <1>2

\* An edit of one key moves no other setting.
LEMMA EditMovesOne ==
    ASSUME NEW s, NEW doc, NEW told, NEW k,
           DOMAIN told \ {k} = DOMAIN doc \ {k},
           \A j \in DOMAIN told \ {k} : told[j] = doc[j]
    PROVE  Moved(s, doc, told) \subseteq {k}
<1>1. SUFFICES ASSUME NEW j \in Moved(s, doc, told), j # k
               PROVE  FALSE
  OBVIOUS
<1>2. /\ j \in Settings(s)
      /\ j \notin DOMAIN Forced(s, doc)
      /\ j \notin DOMAIN Forced(s, told)
      /\ Load(s, told)[j] # Load(s, doc)[j]
      /\ Load(s, told)[j] # Start(s, told)[j]
  BY <1>1 DEF Moved
<1>3. j \in DOMAIN told /\ Accepts(Kind(s, j), told[j])
  BY <1>2 DEF Load, Parsed, Settings, Kind
<1>4. j \in DOMAIN doc /\ doc[j] = told[j]
  BY <1>1, <1>3
<1> QED BY <1>2, <1>3, <1>4 DEF Load, Parsed, Settings, Kind

\* Nor does a save of what the document gives, but for one setting.
LEMMA SaveMovesOne ==
    ASSUME NEW s \in Sections, StartsLoadable(s), RereadsDefaults(s), NEW doc, IsDocument(s, doc), NEW c, IsSettings(s, c),
           NEW k, \A j \in Settings(s) \ {k} : c[j] = Load(s, doc)[j]
    PROVE  Moved(s, doc, Save(s, c)) \subseteq {k}
<1>1. SUFFICES ASSUME NEW j \in Moved(s, doc, Save(s, c)), j # k
               PROVE  FALSE
  OBVIOUS
<1>2. /\ j \in Settings(s)
      /\ j \notin DOMAIN Forced(s, Save(s, c))
      /\ Load(s, Save(s, c))[j] # Load(s, doc)[j]
      /\ Load(s, Save(s, c))[j] # Start(s, Save(s, c))[j]
  BY <1>1 DEF Moved
<1>3. c[j] = Load(s, doc)[j]
  BY <1>1, <1>2
<1>4. Stable(s, j, c[j])
  BY <1>2, <1>3, LoadIsLoadable DEF Loadable
<1>5. Load(s, Save(s, c))[j] \in {c[j], Start(s, Save(s, c))[j]}
  BY <1>2, <1>4, SavedIsBackOrStart
<1> QED BY <1>2, <1>3, <1>5

LEMMA NextMovesOne ==
    ASSUME TypeOK, FileTyped, StartsLoadable(section), RereadsDefaults(section), [Next]_vars
    PROVE  section' = section /\ Cardinality(Moved(section, file, file')) <= 1
<1>s. section \in Sections /\ IsDocument(section, file)
  BY DEF TypeOK, FileTyped
<1>0. Shaped(section, Fetched) /\ IsSettings(section, Fetched)
  BY <1>s, LoadIsShaped, LoadIsSettings DEF Fetched
<1>1. CASE UNCHANGED vars
  <2>1. section' = section /\ file' = file
    BY <1>1 DEF vars
  <2>2. Moved(section, file, file) \subseteq {section}
    BY DEF Moved
  <2> QED BY <2>1, <2>2, AtMostOne
<1>2. ASSUME NEW k \in Settings(section), NEW v \in Tried(section, k), Set(k, v)
      PROVE  section' = section /\ Cardinality(Moved(section, file, file')) <= 1
  <2> DEFINE c == [Fetched EXCEPT ![k] = v]
  <2>1. section' = section /\ file' = Save(section, c) /\ v # Wrong
    BY <1>2 DEF Set
  <2>2. IsSettings(section, c)
    BY <2>1, SetIsSettings
  <2>3. \A j \in Settings(section) \ {k} : c[j] = Load(section, file)[j]
    BY <1>0 DEF Fetched, Shaped
  <2> HIDE DEF c
  <2>4. Moved(section, file, Save(section, c)) \subseteq {k}
    BY <1>s, <2>2, <2>3, SaveMovesOne
  <2> QED BY <2>1, <2>4, AtMostOne
<1>3. ASSUME NEW k \in Settings(section), NEW v \in Tried(section, k), Edit(k, v)
      PROVE  section' = section /\ Cardinality(Moved(section, file, file')) <= 1
  <2>1. /\ file' = [j \in DOMAIN file \cup {k} |-> IF j = k THEN v ELSE file[j]]
        /\ section' = section
    BY <1>3 DEF Edit, Edited
  <2>2. /\ DOMAIN file' \ {k} = DOMAIN file \ {k}
        /\ \A j \in DOMAIN file' \ {k} : file'[j] = file[j]
    BY <2>1
  <2>3. Moved(section, file, file') \subseteq {k}
    BY <2>2, EditMovesOne
  <2> QED BY <2>1, <2>3, AtMostOne
<1>4. ASSUME NEW k \in Settings(section), Erase(k)
      PROVE  section' = section /\ Cardinality(Moved(section, file, file')) <= 1
  <2>1. /\ file' = [j \in DOMAIN file \ {k} |-> file[j]]
        /\ section' = section
    BY <1>4 DEF Erase, Edited
  <2>2. /\ DOMAIN file' \ {k} = DOMAIN file \ {k}
        /\ \A j \in DOMAIN file' \ {k} : file'[j] = file[j]
    BY <2>1
  <2>3. Moved(section, file, file') \subseteq {k}
    BY <2>2, EditMovesOne
  <2> QED BY <2>1, <2>3, AtMostOne
<1>5. CASE SetElsewhere
  <2>1. file' = Save(section, Fetched) /\ section' = section
    BY <1>5 DEF SetElsewhere
  <2>2. Moved(section, file, Save(section, Fetched)) \subseteq {section}
    BY <1>s, <1>0, SaveMovesOne DEF Fetched
  <2> QED BY <2>1, <2>2, AtMostOne
<1> QED BY <1>1, <1>2, <1>3, <1>4, <1>5 DEF Next

\* Whatever a setter, a save of another section or an editor does to the file, it
\* gives at most one setting a value that this setting did not have and that is
\* not the one its parser starts from.
THEOREM OneSettingMoves ==
    ASSUME \A s \in Sections : WritesItsOwn(s) /\ StartsLoadable(s) /\ RereadsDefaults(s)
    PROVE  Spec => SetsOne
<1>1. TypeOK /\ FileTyped /\ [Next]_vars
      => [Loads(section, file) /\ Loads(section', file') =>
          LET before == Load(section, file)
              after == Load(section, file')
              default == Start(section, file')
              forced == DOMAIN Forced(section, file) \cup DOMAIN Forced(section, file')
              moved == {k \in Settings(section) \ forced :
                           after[k] # before[k] /\ after[k] # default[k]}
          IN  Cardinality(moved) <= 1]_vars
  BY NextMovesOne DEF Moved, TypeOK
<1>2. Spec => [](TypeOK /\ FileTyped)
  BY Typed
<1> QED BY <1>1, <1>2, PTL DEF Spec, SetsOne
=============================================================================
