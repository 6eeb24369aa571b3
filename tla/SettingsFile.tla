---------------------------- MODULE SettingsFile ----------------------------
(***************************************************************************)
(* One section of the configuration and its text in the file: the section  *)
(* parser, the section's part of config_save, its defaults, and the        *)
(* generated setters, each of which loads the file, assigns one field and  *)
(* saves the whole configuration from an empty document.  A key that the   *)
(* parser takes and config_save omits is lost by the next setter of any    *)
(* section.                                                                *)
(*                                                                         *)
(* The sections are tables, given by the constants.  They share no setting *)
(* but the curator's tier, which both of its sections carry, so a          *)
(* behaviour follows one of them.                                          *)
(***************************************************************************)
EXTENDS SettingKinds, FiniteSets

CONSTANTS
    Sections,       \* names of the sections
    Table,          \* section -> [reads, defaults, setters]
    Start(_, _),    \* settings as the parser of a section meets their keys
    Forced(_, _),   \* settings a document decides after their keys were read
    Loads(_, _),    \* config_load accepts the document
    Written(_, _),  \* keys config_save writes for the settings
    Lost(_, _),     \* settings that, by the code, do not outlive a save
    Tried(_, _),    \* values put in a setting
    Found(_),       \* what the file may hold of a section at first
    MaxOff          \* bound on what a section holds besides its defaults

VARIABLES
    section, \* the section this behaviour is about
    file,    \* its keys in the file, and their values
    wanted   \* what the operator asked for, and has not been refused

vars == <<section, file, wanted>>

Kind(s, k) == Table[s].reads[k]
Default(s, k) == Table[s].defaults[k]
Settings(s) == DOMAIN Table[s].reads

\* A numeric field holds numbers, by default and when tried, a range is one, and no
\* default or name is of a wrong JSON type.
ASSUME RangeAssumption ==
    \A s \in Sections : \A k \in Settings(s) :
        LET kind == Kind(s, k)
            told == Tried(s, k) \cup {doc[k] : doc \in {d \in Found(s) : k \in DOMAIN d}}
        IN  /\ Default(s, k) # Wrong
            /\ IsNumber(kind) => (told \ {Wrong}) \cup {Default(s, k)} \subseteq Int
            /\ kind[1] = "clamped" => {kind[2], kind[3]} \subseteq Int /\ kind[2] <= kind[3]
            /\ kind[1] = "named" => kind[3] # Wrong
ASSUME FoundAssumption ==
    \A s \in Sections : \A doc \in Found(s) : DOMAIN doc \subseteq Settings(s)

\* Mutant: the defaults are not filled in before the parser.
LoadBare(s, doc) ==
    [k \in DOMAIN doc |-> IF Accepts(Kind(s, k), doc[k]) THEN Assigned(Kind(s, k), doc[k])
                          ELSE Wrong]

\* The settings a section's parser makes of a document: it assigns those it accepts over
\* what it starts from, but for those that are forced in the end.
Parsed(reads, start, forced, doc) ==
    [k \in DOMAIN reads |->
        IF k \in DOMAIN forced THEN forced[k]
        ELSE IF k \in DOMAIN doc /\ Accepts(reads[k], doc[k])
             THEN Assigned(reads[k], doc[k])
             ELSE start[k]]

\* config_load on the section.
Load(s, doc) == Parsed(Table[s].reads, Start(s, doc), Forced(s, doc), doc)

\* config_save of the settings c.
Save(s, c) == [k \in Written(s, c) |-> Rendered(Kind(s, k), c[k])]

\* The value v of a setting can be told to the parser, and what it then is.
Legal(s, k, v) == v = Default(s, k) \/ Accepts(Kind(s, k), Rendered(Kind(s, k), v))
Kept(s, k, v) == IF v = Default(s, k) THEN v
                 ELSE Assigned(Kind(s, k), Rendered(Kind(s, k), v))

\* Settings of c that a save is not held to: known losses, and values only a
\* setter accepts.
Refused(s, c) == Lost(s, c) \cup {k \in Settings(s) : ~Legal(s, k, c[k])}

\* The settings asked for, once c is saved over the file.
After(s, w, c) ==
    LET saved == Save(s, c)
        loaded == Load(s, saved)
        decided == Refused(s, c) \cup DOMAIN Forced(s, saved)
    IN  [k \in Settings(s) |-> IF k \in decided THEN loaded[k] ELSE Kept(s, k, w[k])]

\* How far a section is from its defaults, or from what its file has it start
\* from: the settings asked for, the keys of the file that config_save would not
\* write so, and the keys by which the file differs from a saved one, or from
\* one that names no default.
Distance(doc, w, free, defaults, start, written) ==
    LET changed == {k \in free : w[k] # defaults[k]}
        apart == {k \in free : w[k] # start[k]}
        wrong == {k \in DOMAIN doc : k \notin DOMAIN written \/ doc[k] # written[k]}
        missing == DOMAIN written \ DOMAIN doc
        idle == DOMAIN doc \ (changed \cup wrong)
        fewer(a, b) == IF Cardinality(a) < Cardinality(b) THEN Cardinality(a)
                       ELSE Cardinality(b)
    IN  fewer(changed, apart) + Cardinality(wrong) + fewer(missing, idle)

Off(s, doc, w) ==
    Distance(doc, w, Settings(s) \ DOMAIN Forced(s, doc), Table[s].defaults, Start(s, doc),
             Save(s, w))

Init ==
    /\ section \in Sections
    /\ file \in Found(section)
    /\ wanted = Load(section, file)

\* Mutant: the setter does not load the file first, and all flags are off.
FetchedBlank ==
    [k \in Settings(section) |->
        IF Kind(section, k) = Flag THEN 0 ELSE Default(section, k)]
\* The configuration a setter starts from.
Fetched == Load(section, file)

\* A generated setter of this section: config_load, the assignment, config_save.
\* The value is not validated.
Set(k, v) ==
    /\ k \in Table[section].setters
    /\ v # Wrong
    /\ Loads(section, file)
    /\ LET c == [Fetched EXCEPT ![k] = v]
       IN  /\ file' = Save(section, c)
           /\ wanted' = After(section, [wanted EXCEPT ![k] = v], c)
    /\ Off(section, file', wanted') <= MaxOff
    /\ UNCHANGED section

\* A setter of another section saves this one too.
SetElsewhere ==
    /\ Loads(section, file)
    /\ file' = Save(section, Fetched)
    /\ wanted' = After(section, wanted, Fetched)
    /\ UNCHANGED section

\* The operator's editor, or config_set, which edits the document and does not
\* go through config_save.  A document that does not load leaves the settings.
Edited(doc) ==
    /\ file' = doc
    /\ wanted' = IF Loads(section, doc) THEN Load(section, doc) ELSE wanted
    /\ Off(section, file', wanted') <= MaxOff
    /\ UNCHANGED section

Edit(k, v) == /\ k \in DOMAIN file => file[k] # v
              /\ Edited([j \in DOMAIN file \cup {k} |-> IF j = k THEN v ELSE file[j]])

Erase(k) == /\ k \in DOMAIN file
            /\ Edited([j \in DOMAIN file \ {k} |-> file[j]])

Next ==
    \/ \E k \in Settings(section) :
          \/ \E v \in Tried(section, k) : Set(k, v) \/ Edit(k, v)
          \/ Erase(k)
    \/ SetElsewhere

Spec == Init /\ [][Next]_vars

-----------------------------------------------------------------------------

\* The keys of the file and the settings are those of the section.
TypeOK ==
    /\ section \in Sections
    /\ DOMAIN file \subseteq Settings(section)
    /\ DOMAIN wanted = Settings(section)

\* A restart gives every setting the value the operator asked for, over any
\* sequence of setters and edits: config_save writes what its parser needs to
\* rebuild the configuration, but for the losses listed in Lost.
Survives == Loads(section, file) => Load(section, file) = wanted

\* A value the users of a setting of this kind may meet.
Bounded(kind, v) ==
    CASE kind[1] \in {"flag", "truth", "switch"} -> v \in {0, 1}
      [] kind[1] = "atleast" -> v >= kind[2]
      [] kind[1] \in {"within", "clamped"} -> v \in kind[2]..kind[3]
      [] kind[1] = "text" -> v # ""
      [] kind[1] = "oneof" -> v \in kind[2]
      [] kind[1] = "named" -> v \in kind[2] \cup {kind[3]}
      [] OTHER -> v # Wrong

\* Whatever the file holds, and whatever setters put there, no setting is loaded
\* with a value out of its bounds: a bad one falls back on the default, or on the
\* nearest bound.
InRange ==
    Loads(section, file) =>
        LET c == Load(section, file)
        IN  \A k \in Settings(section) :
                c[k] = Default(section, k) \/ Bounded(Kind(section, k), c[k])

\* The listed losses are the losses: saving what a file loads changes the
\* settings in Lost, every one of them, and no other; a setting that the saved
\* document forces to the value it has is not lost.
LossesKnown ==
    Loads(section, file) =>
        LET c == Load(section, file)
            saved == Save(section, c)
            after == Load(section, saved)
            forced == Forced(section, saved)
        IN  \A k \in Settings(section) :
                after[k] # c[k]
                  <=> k \in Lost(section, c) /\ (k \in DOMAIN forced => forced[k] # c[k])

\* What a save loses it loses at once: the settings loaded after one save are
\* those loaded after any number of them.
Settles ==
    Loads(section, file) =>
        LET once == Save(section, Load(section, file))
        IN  /\ Loads(section, once)
            /\ LET c == Load(section, once) IN Load(section, Save(section, c)) = c

\* Whatever a step does to the file, by a setter of this section or of another, by an
\* editor or by config_set, one setting at most is then loaded with a new value of
\* its own; the others load as before, or fall back on their defaults, or are forced.
SetsOne ==
    [][Loads(section, file) /\ Loads(section', file') =>
          LET before == Load(section, file)
              after == Load(section, file')
              default == Start(section, file')
              forced == DOMAIN Forced(section, file) \cup DOMAIN Forced(section, file')
              moved == {k \in Settings(section) \ forced :
                           after[k] # before[k] /\ after[k] # default[k]}
          IN  Cardinality(moved) <= 1]_vars
=============================================================================
