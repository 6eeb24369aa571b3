----------------------------- MODULE Sections_proofs -----------------------------
(***************************************************************************)
(* The tables of the repository that meet the conditions of                *)
(* SettingsFile_proofs: for their sections, its theorems hold of whatever  *)
(* the operator sets.  The constants are taken as MCSettings makes them of *)
(* the tables.                                                             *)
(***************************************************************************)
EXTENDS SettingsFile_proofs, RuntimeSections, FlatSections

\* All that SettingsFile_proofs asks of a section.
Sound(s) == Faithful(s) /\ LossesListed(s) /\ LosesOnce(s)

-----------------------------------------------------------------------------
(* Sections of the common form.                                            *)

\* Every document starts from the defaults and forces nothing.
Plain(s) == \A doc : Start(s, doc) = Table[s].defaults /\ Forced(s, doc) = Zeroed

\* config_save omits a setting that has its default, that the parser would not
\* take, or that is a listed loss; and a default that it writes, it can reread.
Tidy(s) ==
    /\ \A c : Shaped(s, c) => Written(s, c) \subseteq Settings(s)
    /\ \A c : IsSettings(s, c) => \A k \in Settings(s) :
          /\ k \notin Written(s, c) /\ Legal(s, k, c[k]) /\ k \notin Lost(s, c)
             => Kept(s, k, c[k]) = Default(s, k)
          /\ k \in Written(s, c) /\ c[k] = Default(s, k) /\ Takes(s, k, c[k])
             => Assigned(Kind(s, k), Rendered(Kind(s, k), c[k])) = c[k]

\* The listed losses are settings that are not written and have no default, and
\* are there no more after a save.
Lossy(s) ==
    /\ \A c : IsSettings(s, c) => Lost(s, c) \subseteq Settings(s) \ Written(s, c)
    /\ \A c : IsSettings(s, c) => \A k \in Lost(s, c) : c[k] # Default(s, k)
    /\ \A doc : IsDocument(s, doc) /\ Loads(s, doc) => Lost(s, Load(s, Reread(s, doc))) = {}

\* What is saved of a document that loads, loads.
Reloads(s) == \A doc : IsDocument(s, doc) /\ Loads(s, doc) => Loads(s, Reread(s, doc))

LEMMA DefaultIsLoadable ==
    ASSUME NEW s \in Sections, NEW k \in Settings(s)
    PROVE  Loadable(s, k, Default(s, k))
BY RangeAssumption DEF Loadable, Stable, InBounds

LEMMA PlainStarts ==
    ASSUME NEW s \in Sections, Plain(s)
    PROVE  StartsLoadable(s)
<1>1. ASSUME NEW doc, NEW k \in Settings(s)
      PROVE  Start(s, doc)[k] = Default(s, k) /\ k \notin DOMAIN Forced(s, doc)
  BY DEF Plain, Default, Zeroed
<1> QED BY <1>1, DefaultIsLoadable DEF StartsLoadable

LEMMA TidyIsFaithful ==
    ASSUME NEW s \in Sections, StartsLoadable(s), Tidy(s),
           \A doc : Start(s, doc) = Table[s].defaults
    PROVE  Faithful(s)
<1>1. ASSUME NEW c, IsSettings(s, c), NEW k \in Settings(s) \ Refused(s, c),
             k \notin Written(s, c) \/ ~Takes(s, k, c[k])
      PROVE  Start(s, Save(s, c))[k] = Kept(s, k, c[k])
  <2>1. Legal(s, k, c[k]) /\ k \notin Lost(s, c)
    BY DEF Refused
  <2>2. Start(s, Save(s, c))[k] = Default(s, k)
    BY DEF Default
  <2>3. CASE k \notin Written(s, c)
    BY <1>1, <2>1, <2>2, <2>3 DEF Tidy
  <2>4. CASE ~Takes(s, k, c[k])
    BY <2>1, <2>2, <2>4 DEF Legal, Kept, Takes
  <2> QED BY <1>1, <2>3, <2>4
<1>2. OmitsOnlyTheStart(s)
  BY <1>1 DEF OmitsOnlyTheStart
<1>3. RereadsDefaults(s)
  BY DEF Tidy, RereadsDefaults
<1>4. WritesItsOwn(s)
  BY DEF Tidy, WritesItsOwn
<1> QED BY <1>2, <1>3, <1>4 DEF Faithful

LEMMA PlainIsSound ==
    ASSUME NEW s \in Sections, Plain(s), Tidy(s), Lossy(s), Reloads(s)
    PROVE  Sound(s)
<1>1. Faithful(s)
  BY PlainStarts, TidyIsFaithful DEF Plain
<1>2. \A doc : IsDocument(s, doc) => IsSettings(s, Load(s, doc))
  BY PlainStarts, LoadIsSettings
<1>3. \A doc : DOMAIN Forced(s, doc) = {}
  BY DEF Plain, Zeroed
<1>4. LosesTheOmitted(s)
  BY DEF LosesTheOmitted, Lossy
<1>5. LosesForGood(s)
  BY <1>2 DEF LosesForGood, Lossy, Plain, Default
<1>6. ForcesTheSame(s)
  BY <1>3 DEF ForcesTheSame
<1>7. LosesOnce(s)
  BY DEF LosesOnce, Lossy, Reloads
<1> QED BY <1>1, <1>4, <1>5, <1>6, <1>7 DEF Sound, LossesListed

\* A text that says nothing; the SMT translation of the provers takes no "".
Empty == ""

\* What a field that is given no default holds.
Zero(kind) == IF IsText(kind) THEN "" ELSE 0

LEMMA Zeros ==
    /\ Zero(Flag) = 0 /\ Zero(Truth) = 0 /\ Zero(Number) = 0 /\ Zero(Switch) = 0
    /\ Zero(Positive) = 0 /\ Zero(NonNegative) = 0
    /\ \A lo : Zero(AtLeast(lo)) = 0
    /\ \A lo, hi : Zero(Within(lo, hi)) = 0 /\ Zero(Clamped(lo, hi)) = 0
BY DEF Zero, IsText, Flag, Truth, Number, Switch, Positive, NonNegative, AtLeast, Within, Clamped

LEMMA ZeroTexts == Zero(Text) = Empty /\ Zero(AnyText) = Empty
BY DEF Zero, IsText, Text, AnyText, Empty

\* What the row of a section says of it.
RowIs(s, reads, nonzero) ==
    /\ Settings(s) = DOMAIN reads
    /\ DOMAIN Table[s].defaults = Settings(s)
    /\ \A k \in Settings(s) :
          /\ Kind(s, k) = reads[k]
          /\ Default(s, k) = IF k \in DOMAIN nonzero THEN nonzero[k] ELSE Zero(reads[k])

LEMMA OfRow ==
    ASSUME NEW s, NEW reads, NEW nonzero, NEW setters, Table[s] = Row(reads, nonzero, setters)
    PROVE  RowIs(s, reads, nonzero)
<1>1. Table[s].reads = reads /\ Table[s].defaults = Filled(reads, nonzero)
  BY DEF Row
<1>2. Settings(s) = DOMAIN reads /\ DOMAIN Table[s].defaults = Settings(s)
  BY <1>1 DEF Settings, Filled
<1>3. ASSUME NEW k \in Settings(s)
      PROVE  /\ Kind(s, k) = reads[k]
             /\ Default(s, k) = IF k \in DOMAIN nonzero THEN nonzero[k] ELSE Zero(reads[k])
  BY <1>1, <1>2 DEF Kind, Default, Filled, Zero
<1> QED BY <1>2, <1>3 DEF RowIs

LEMMA DefaultOf ==
    ASSUME NEW s, NEW reads, NEW nonzero, RowIs(s, reads, nonzero), NEW k \in DOMAIN reads
    PROVE  /\ k \in Settings(s) /\ Kind(s, k) = reads[k]
           /\ k \in DOMAIN nonzero => Default(s, k) = nonzero[k]
           /\ k \notin DOMAIN nonzero => Default(s, k) = Zero(reads[k])
BY DEF RowIs

\* The settings of names that do not have their default.
Apart(s, c, names) == {k \in names : c[k] # Default(s, k)}

LEMMA OnIsApart ==
    ASSUME NEW s, NEW c, NEW names, \A k \in names : Default(s, k) = 0
    PROVE  On(c, names) = Apart(s, c, names)
BY DEF On, Apart

LEMMA NonEmptyIsApart ==
    ASSUME NEW s, NEW c, NEW names, \A k \in names : Default(s, k) = Empty
    PROVE  NonEmpty(c, names) = Apart(s, c, names)
BY Zenon DEF NonEmpty, Apart, Empty

LEMMA DifferingIsApart ==
    ASSUME NEW s, NEW c, NEW defaults, \A k \in DOMAIN defaults : Default(s, k) = defaults[k]
    PROVE  Differing(c, defaults) = Apart(s, c, DOMAIN defaults)
BY DEF Differing, Apart

\* A flag is kept as on or off.
LEMMA FlagIsKept ==
    ASSUME NEW s, NEW k, Kind(s, k) = Flag, Default(s, k) \in {0, 1}, NEW v
    PROVE  Kept(s, k, v) = IF v = 0 THEN 0 ELSE 1
BY DEF Kept, Assigned, Rendered, Flag

\* A section that writes the settings that have no default, and no other.
LEMMA DifferencesAreTidy ==
    ASSUME NEW s \in Sections, \A c : Lost(s, c) = {},
           \A c : Written(s, c) = Apart(s, c, Settings(s))
    PROVE  Tidy(s) /\ Lossy(s)
BY DEF Tidy, Lossy, Kept, Apart

\* The parser takes no empty text, and no number under its least.
LEMMA EmptyIsRefused ==
    ASSUME NEW s, NEW k, Kind(s, k)[1] = "text" \/ (Kind(s, k)[1] = "oneof" /\ Empty \notin Kind(s, k)[2])
    PROVE  Empty = Default(s, k) \/ ~Legal(s, k, Empty)
BY DEF Legal, Accepts, Rendered, Empty

LEMMA LowIsRefused ==
    ASSUME NEW s, NEW k, NEW lo \in Int, NEW hi, Kind(s, k) \in {AtLeast(lo), Within(lo, hi)},
           hi \in Int, NEW v \in Int, v < lo
    PROVE  v = Default(s, k) \/ ~Legal(s, k, v)
<1>1. CASE Kind(s, k) = AtLeast(lo)
  BY <1>1 DEF Legal, Accepts, Rendered, AtLeast
<1>2. CASE Kind(s, k) = Within(lo, hi)
  BY <1>2 DEF Legal, Accepts, Rendered, Within
<1> QED BY <1>1, <1>2

\* A default that its text gives back.
Sturdy(kind, v) ==
    /\ kind[1] \in {"flag", "truth", "switch"} => v \in {0, 1}
    /\ kind[1] = "clamped" => v \in Int /\ kind[2] \in Int /\ kind[3] \in Int /\ v \in kind[2]..kind[3]
    /\ kind[1] = "named" => v \in kind[2] \cup {kind[3]}

LEMMA SturdyIsReread ==
    ASSUME NEW kind, NEW v, Sturdy(kind, v)
    PROVE  Assigned(kind, Rendered(kind, v)) = v
<1>1. CASE kind[1] = "clamped"
  BY <1>1 DEF Sturdy, Assigned, Rendered
<1>2. CASE kind[1] = "named"
  BY <1>2 DEF Sturdy, Assigned, Rendered
<1>3. CASE kind[1] \in {"flag", "truth", "switch"}
  BY <1>3 DEF Sturdy, Assigned, Rendered
<1>4. CASE kind[1] \notin {"clamped", "named", "flag", "truth", "switch"}
  BY <1>4 DEF Assigned, Rendered
<1> QED BY <1>1, <1>2, <1>3, <1>4

\* A section that omits only what is as good as a default, or what the parser does
\* not take.
LEMMA WholesAreTidy ==
    ASSUME NEW s \in Sections, \A c : Lost(s, c) = {},
           \A c : Shaped(s, c) => Written(s, c) \subseteq Settings(s),
           \A c : IsSettings(s, c) => \A k \in Settings(s) \ Written(s, c) :
              Legal(s, k, c[k]) => Kept(s, k, c[k]) = Default(s, k),
           \A k \in Settings(s) : Sturdy(Kind(s, k), Default(s, k))
    PROVE  Tidy(s) /\ Lossy(s)
<1>1. Tidy(s)
  BY SturdyIsReread DEF Tidy, Kept
<1> QED BY <1>1 DEF Lossy

\* As those two, for a setting at a time and with losses.
LEMMA TidyByParts ==
    ASSUME NEW s \in Sections,
           \A c : Shaped(s, c) => Written(s, c) \subseteq Settings(s),
           \A c : IsSettings(s, c) => \A k \in Settings(s) \ Written(s, c) :
              \/ c[k] = Default(s, k)
              \/ k \in Lost(s, c)
              \/ ~Legal(s, k, c[k])
              \/ Kept(s, k, c[k]) = Default(s, k),
           \A k \in Settings(s) :
              \/ Sturdy(Kind(s, k), Default(s, k))
              \/ \A c : IsSettings(s, c) /\ k \in Written(s, c) => c[k] # Default(s, k)
    PROVE  Tidy(s)
<1>1. \A k \in Settings(s) : Kept(s, k, Default(s, k)) = Default(s, k)
  BY DEF Kept
<1> QED BY <1>1, SturdyIsReread DEF Tidy

\* A save leaves the losses out, and the load after it starts from the defaults.
LEMMA OmittedIsDefault ==
    ASSUME NEW s \in Sections, Plain(s), NEW c, NEW k \in Settings(s) \ Written(s, c)
    PROVE  Load(s, Save(s, c))[k] = Default(s, k)
<1>1. k \notin DOMAIN Save(s, c) /\ k \notin DOMAIN Forced(s, Save(s, c))
  BY DEF Save, Plain, Zeroed
<1> QED BY <1>1 DEF Load, Parsed, Settings, Kind, Plain, Default

\* A flag that is saved is loaded on or off as it was.
LEMMA FlagIsReread ==
    ASSUME NEW s \in Sections, Plain(s), NEW c, NEW k \in Settings(s) \cap Written(s, c),
           Kind(s, k) = Flag
    PROVE  Load(s, Save(s, c))[k] = IF c[k] = 0 THEN 0 ELSE 1
<1>1. k \in DOMAIN Save(s, c) /\ k \notin DOMAIN Forced(s, Save(s, c))
  BY DEF Save, Plain, Zeroed
<1>2. Save(s, c)[k] = IF c[k] = 0 THEN 0 ELSE 1
  BY DEF Save, Rendered, Flag
<1>3. Save(s, c)[k] # Wrong
  BY <1>2, WrongAssumption
<1>4. /\ Accepts(Kind(s, k), Save(s, c)[k])
      /\ Assigned(Kind(s, k), Save(s, c)[k]) = Save(s, c)[k]
  BY <1>2, <1>3 DEF Accepts, Assigned, Flag
<1> QED BY <1>1, <1>2, <1>4 DEF Load, Parsed, Settings, Kind

\* A number with a least value is loaded as its default, or not under that.
LEMMA LoadedAtLeast ==
    ASSUME NEW s \in Sections, Plain(s), NEW doc, IsDocument(s, doc), NEW k \in Settings(s),
           NEW lo, Kind(s, k) = AtLeast(lo)
    PROVE  /\ Load(s, doc)[k] \in Int
           /\ Load(s, doc)[k] = Default(s, k) \/ Load(s, doc)[k] >= lo
<1>1. Loadable(s, k, Load(s, doc)[k])
  BY PlainStarts, LoadIsLoadable
<1>2. Kind(s, k)[1] = "atleast" /\ Kind(s, k)[2] = lo
  BY DEF AtLeast
<1> QED BY <1>1, <1>2 DEF Loadable, InBounds, Bounded, IsNumber

\* A positive number that is saved is loaded as it was.
LEMMA NumberIsReread ==
    ASSUME NEW s \in Sections, Plain(s), NEW c, NEW k \in Settings(s) \cap Written(s, c),
           NEW lo, Kind(s, k) = AtLeast(lo), c[k] \in Int, c[k] >= lo
    PROVE  Load(s, Save(s, c))[k] = c[k]
<1>1. k \in DOMAIN Save(s, c) /\ k \notin DOMAIN Forced(s, Save(s, c))
  BY DEF Save, Plain, Zeroed
<1>2. Save(s, c)[k] = c[k] /\ c[k] # Wrong
  BY WrongAssumption DEF Save, Rendered, AtLeast
<1>3. /\ Accepts(Kind(s, k), c[k])
      /\ Assigned(Kind(s, k), c[k]) = c[k]
  BY <1>2 DEF Accepts, Assigned, AtLeast
<1> QED BY <1>1, <1>2, <1>3 DEF Load, Parsed, Settings, Kind

\* A section that no save writes loses whatever is not a default, once.
LEMMA UnsavedIsLossy ==
    ASSUME NEW s \in Sections, Plain(s), \A c : Written(s, c) = {},
           \A c : Lost(s, c) = Apart(s, c, Settings(s))
    PROVE  Tidy(s) /\ Lossy(s)
<1>1. ASSUME NEW doc, NEW k \in Settings(s)
      PROVE  Load(s, Reread(s, doc))[k] = Default(s, k)
  BY OmittedIsDefault DEF Reread
<1>2. Tidy(s)
  BY DEF Tidy, Kept, Apart
<1>3. Lossy(s)
  BY <1>1 DEF Lossy, Apart
<1> QED BY <1>2, <1>3

\* What is loaded is settings.
LEMMA PlainLoads ==
    ASSUME NEW s \in Sections, Plain(s), NEW doc, IsDocument(s, doc)
    PROVE  IsSettings(s, Load(s, doc))
BY PlainStarts, LoadIsSettings

\* An object that is written while its flag is off or another setting has no default:
\* then with the flag, and with those settings.
LEMMA BlocksAreTidy ==
    ASSUME NEW s \in Sections, NEW rest,
           Settings(s) = {"enabled"} \cup rest, "enabled" \notin rest,
           Kind(s, "enabled") = Flag, Default(s, "enabled") = 1,
           \A c : Lost(s, c) = {},
           \A c : Written(s, c) = When(c.enabled = 0 \/ Apart(s, c, rest) # {},
                                      {"enabled"} \cup Apart(s, c, rest))
    PROVE  Tidy(s) /\ Lossy(s)
<1>1. \A c : Written(s, c) \subseteq Settings(s)
  BY DEF When, Apart
<1>2. ASSUME NEW c, NEW k \in Settings(s) \ Written(s, c)
      PROVE  c[k] = Default(s, k) \/ Kept(s, k, c[k]) = Default(s, k)
  <2>1. CASE k = "enabled"
    <3>1. c[k] # 0
      BY <1>2, <2>1 DEF When
    <3> QED BY <2>1, <3>1, FlagIsKept
  <2>2. CASE k \in rest
    BY <1>2, <2>2 DEF When, Apart
  <2> QED BY <2>1, <2>2
<1>3. ASSUME NEW k \in Settings(s)
      PROVE  \/ Sturdy(Kind(s, k), Default(s, k))
             \/ \A c : k \in Written(s, c) => c[k] # Default(s, k)
  <2>1. CASE k = "enabled"
    BY <2>1 DEF Sturdy, Flag
  <2>2. CASE k \in rest
    BY <2>2 DEF When, Apart
  <2> QED BY <2>1, <2>2
<1>4. Tidy(s)
  BY <1>1, <1>2, <1>3, TidyByParts
<1> QED BY <1>4 DEF Lossy

-----------------------------------------------------------------------------
(* RuntimeSections.                                                        *)

\* What MCSettings makes of the constants for a section of RuntimeTable.
OfRuntime(s) ==
    /\ s \in DOMAIN RuntimeTable /\ Table[s] = RuntimeTable[s]
    /\ \A c : Written(s, c) = RuntimeWritten(s, c) /\ Lost(s, c) = RuntimeLost(s, c)
    /\ Plain(s)
    /\ \A doc : Loads(s, doc) <=> (s = "economizer" => EconomizerLoads(doc))

LEMMA Retry ==
    ASSUME NEW s \in Sections, OfRuntime(s), s = "retry"
    PROVE  Tidy(s) /\ Lossy(s)
<1>1. RowIs(s, RetryReads, Zeroed)
  BY OfRow DEF OfRuntime, RuntimeTable, RuntimeNames
<1>2. \A c : Written(s, c) = RetryWritten(c) /\ Lost(s, c) = {}
  BY DEF OfRuntime, RuntimeWritten, RuntimeLost
<1>3. \A k \in Settings(s) : RetryReads[k] = Number
  BY <1>1 DEF RowIs, RetryReads, All
<1>4. \A k \in Settings(s) : Default(s, k) = 0
  BY <1>1, <1>3, Zeros DEF RowIs, Zeroed
<1>5. ASSUME NEW c
      PROVE  Written(s, c) = Apart(s, c, Settings(s))
  BY <1>1, <1>2, <1>4, OnIsApart DEF RowIs, RetryWritten
<1> QED BY <1>2, <1>5, DifferencesAreTidy

LEMMA CrossVerify ==
    ASSUME NEW s \in Sections, OfRuntime(s), s = "cross_verify"
    PROVE  Tidy(s) /\ Lossy(s)
<1>1. RowIs(s, CrossVerifyReads, Zeroed)
  BY OfRow DEF OfRuntime, RuntimeTable, RuntimeNames
<1>2. \A c : Written(s, c) = CrossVerifyWritten(c) /\ Lost(s, c) = {}
  BY DEF OfRuntime, RuntimeWritten, RuntimeLost
<1> DEFINE texts == {"verify_cmd", "verify_role", "verify_prompt"}
<1>3. /\ Settings(s) = {"cross_verify"} \cup texts
      /\ CrossVerifyReads["cross_verify"] = Flag
      /\ \A k \in texts : CrossVerifyReads[k] = Text
  BY <1>1 DEF RowIs, CrossVerifyReads
<1>4. /\ \A k \in {"cross_verify"} : Default(s, k) = 0
      /\ \A k \in texts : Default(s, k) = Empty
  BY <1>1, <1>3, Zeros, ZeroTexts DEF RowIs, Zeroed
<1>5. ASSUME NEW c
      PROVE  Written(s, c) = Apart(s, c, Settings(s))
  <2>1. Written(s, c) = On(c, {"cross_verify"}) \cup NonEmpty(c, texts)
    BY <1>2 DEF CrossVerifyWritten
  <2> HIDE DEF texts
  <2>2. On(c, {"cross_verify"}) = Apart(s, c, {"cross_verify"})
    BY <1>4, OnIsApart
  <2>3. NonEmpty(c, texts) = Apart(s, c, texts)
    BY <1>4, NonEmptyIsApart
  <2> QED BY <1>3, <2>1, <2>2, <2>3 DEF Apart
<1> QED BY <1>2, <1>5, DifferencesAreTidy

LEMMA Modules ==
    ASSUME NEW s \in Sections, OfRuntime(s), s = "modules"
    PROVE  Tidy(s) /\ Lossy(s)
<1>1. RowIs(s, ModulesReads, ModulesDefaults)
  BY OfRow DEF OfRuntime, RuntimeTable, RuntimeNames
<1>2. \A c : Written(s, c) = ModulesWritten(c) /\ Lost(s, c) = {}
  BY DEF OfRuntime, RuntimeWritten, RuntimeLost
<1>3. DOMAIN ModulesReads = DOMAIN ModulesDefaults
  BY DEF ModulesDefaults, All
<1>4. ASSUME NEW c
      PROVE  Written(s, c) = Apart(s, c, Settings(s))
  BY <1>1, <1>2, <1>3, DifferingIsApart DEF RowIs, ModulesWritten
<1> QED BY <1>2, <1>4, DifferencesAreTidy

LEMMA Economizer ==
    ASSUME NEW s \in Sections, OfRuntime(s), s = "economizer"
    PROVE  Tidy(s) /\ Lossy(s) /\ Reloads(s)
<1>1. RowIs(s, EconomizerReads, EconomizerDefaults)
  BY OfRow DEF OfRuntime, RuntimeTable, RuntimeNames
<1>2. \A c : Written(s, c) = EconomizerWritten(c) /\ Lost(s, c) = {}
  BY DEF OfRuntime, RuntimeWritten, RuntimeLost
<1>3. DOMAIN EconomizerReads = {"mode"} /\ DOMAIN EconomizerDefaults = {"mode"}
  BY DEF EconomizerReads, EconomizerDefaults
<1>4. ASSUME NEW c
      PROVE  Written(s, c) = Apart(s, c, Settings(s))
  BY <1>1, <1>2, <1>3, DifferingIsApart DEF RowIs, EconomizerWritten
<1>5. ASSUME NEW doc, Loads(s, doc)
      PROVE  Loads(s, Reread(s, doc))
  <2>1. EconomizerReads["mode"] = <<"named", EconModes, "safe">> /\ "safe" \in EconModes
    BY DEF EconomizerReads, Named, EconModes
  <2>2. ASSUME NEW v
        PROVE  Rendered(Kind(s, "mode"), v) \in EconModes
    BY <1>1, <1>3, <2>1 DEF RowIs, Rendered
  <2>3. EconomizerLoads(Reread(s, doc))
    BY <2>2 DEF EconomizerLoads, Reread, Save
  <2> QED BY <2>3 DEF OfRuntime
<1> QED BY <1>2, <1>4, <1>5, DifferencesAreTidy DEF Reloads

LEMMA Autonomy ==
    ASSUME NEW s \in Sections, OfRuntime(s), s = "autonomy"
    PROVE  Tidy(s) /\ Lossy(s)
<1>1. RowIs(s, AutonomyReads, AutonomyDefaults)
  BY OfRow DEF OfRuntime, RuntimeTable, RuntimeNames
<1>2. \A c : Written(s, c) = AutonomyWritten(c) /\ Lost(s, c) = {}
  BY DEF OfRuntime, RuntimeWritten, RuntimeLost
<1>3. DOMAIN AutonomyReads = DOMAIN AutonomyDefaults
  BY DEF AutonomyReads, AutonomyDefaults, All, @@
<1>4. ASSUME NEW c
      PROVE  Written(s, c) = Apart(s, c, Settings(s))
  BY <1>1, <1>2, <1>3, DifferingIsApart DEF RowIs, AutonomyWritten
<1> QED BY <1>2, <1>4, DifferencesAreTidy

LEMMA Sessions ==
    ASSUME NEW s \in Sections, OfRuntime(s), s = "sessions"
    PROVE  Tidy(s) /\ Lossy(s)
<1>1. RowIs(s, SessionsReads, Zeroed)
  BY OfRow DEF OfRuntime, RuntimeTable, RuntimeNames
<1>2. \A c : Written(s, c) = SessionsWritten(c) /\ Lost(s, c) = {}
  BY DEF OfRuntime, RuntimeWritten, RuntimeLost
<1>3. \A k \in Settings(s) : SessionsReads[k] = Positive
  BY <1>1 DEF RowIs, SessionsReads, All
<1>4. \A k \in Settings(s) : Default(s, k) = 0
  BY <1>1, <1>3, Zeros DEF RowIs, Zeroed
<1>5. ASSUME NEW c
      PROVE  Written(s, c) = Apart(s, c, Settings(s))
  BY <1>1, <1>2, <1>4, OnIsApart DEF RowIs, SessionsWritten
<1> QED BY <1>2, <1>5, DifferencesAreTidy

LEMMA Prompt ==
    ASSUME NEW s \in Sections, OfRuntime(s), s = "prompt"
    PROVE  Tidy(s) /\ Lossy(s)
<1>1. RowIs(s, PromptReads, Zeroed)
  BY OfRow DEF OfRuntime, RuntimeTable, RuntimeNames
<1>2. \A c : Written(s, c) = PromptWritten(c) /\ Lost(s, c) = {}
  BY DEF OfRuntime, RuntimeWritten, RuntimeLost
<1>3. \A k \in Settings(s) : PromptReads[k] = Text
  BY <1>1 DEF RowIs, PromptReads, All
<1>4. \A k \in Settings(s) : Default(s, k) = Empty
  BY <1>1, <1>3, ZeroTexts DEF RowIs, Zeroed
<1>5. ASSUME NEW c
      PROVE  Written(s, c) = Apart(s, c, Settings(s))
  BY <1>1, <1>2, <1>4, NonEmptyIsApart DEF RowIs, PromptWritten
<1> QED BY <1>2, <1>5, DifferencesAreTidy

LEMMA Rewind ==
    ASSUME NEW s \in Sections, OfRuntime(s), s = "rewind"
    PROVE  Tidy(s) /\ Lossy(s)
<1>1. RowIs(s, RewindReads, Zeroed)
  BY OfRow DEF OfRuntime, RuntimeTable, RuntimeNames
<1>2. \A c : Written(s, c) = RewindWritten(c) /\ Lost(s, c) = {}
  BY DEF OfRuntime, RuntimeWritten, RuntimeLost
<1>3. Settings(s) = {"auto_snapshot"} /\ RewindReads["auto_snapshot"] = Flag
  BY <1>1 DEF RowIs, RewindReads
<1>4. \A k \in Settings(s) : Default(s, k) = 0
  BY <1>1, <1>3, Zeros DEF RowIs, Zeroed
<1>5. ASSUME NEW c
      PROVE  Written(s, c) = Apart(s, c, Settings(s))
  BY <1>2, <1>3, <1>4, OnIsApart DEF RewindWritten
<1> QED BY <1>2, <1>5, DifferencesAreTidy

LEMMA Limits ==
    ASSUME NEW s \in Sections, OfRuntime(s), s = "limits"
    PROVE  Tidy(s) /\ Lossy(s)
<1>1. RowIs(s, LimitsReads, Zeroed)
  BY OfRow DEF OfRuntime, RuntimeTable, RuntimeNames
<1>2. \A c : /\ Written(s, c) = On(c, LimitsSetters) \cup Above0(c, BackgroundSetters)
             /\ Lost(s, c) = Below0(c, BackgroundSetters)
  BY DEF OfRuntime, RuntimeWritten, RuntimeLost, LimitsWritten, BackgroundWritten
<1>3. /\ Settings(s) = LimitsSetters \cup BackgroundSetters
      /\ LimitsSetters \cap BackgroundSetters = {}
  BY <1>1 DEF RowIs, LimitsReads, LimitsSetters, BackgroundSetters, All, @@
<1>4. ASSUME NEW k \in Settings(s)
      PROVE  Kind(s, k) \in {Number, Positive} /\ (k \in BackgroundSetters => Kind(s, k) = Positive)
  BY <1>1 DEF RowIs, LimitsReads, LimitsSetters, BackgroundSetters, All, @@
<1>5. \A k \in Settings(s) : Default(s, k) = 0
  BY <1>1, <1>4, Zeros DEF RowIs, Zeroed
<1>6. ASSUME NEW c, IsSettings(s, c), NEW k \in Settings(s)
      PROVE  /\ c[k] \in Int
             /\ k \in LimitsSetters => (k \in Written(s, c) <=> c[k] # 0)
             /\ k \in BackgroundSetters => (k \in Written(s, c) <=> c[k] > 0)
  <2>1. IsNumber(Kind(s, k))
    BY <1>4 DEF IsNumber, Number, Positive, AtLeast
  <2> QED BY <1>2, <1>3, <1>6, <2>1 DEF On, Above0, IsSettings
<1>7. Tidy(s)
  <2>1. \A c : Written(s, c) \subseteq Settings(s)
    BY <1>2, <1>3 DEF On, Above0
  <2>2. \A c : IsSettings(s, c) => \A k \in Settings(s) \ Written(s, c) :
           c[k] = Default(s, k) \/ k \in Lost(s, c)
    BY <1>2, <1>3, <1>5, <1>6 DEF Below0
  <2>3. \A c, k : IsSettings(s, c) /\ k \in Written(s, c) => c[k] # Default(s, k)
    BY <1>3, <1>5, <1>6, <2>1
  <2> QED BY <2>1, <2>2, <2>3, TidyByParts
<1>8. \A c : IsSettings(s, c) => Lost(s, c) \subseteq Settings(s) \ Written(s, c)
  BY <1>2, <1>3, <1>6 DEF Below0
<1>9. \A c : IsSettings(s, c) => \A k \in Lost(s, c) : c[k] # Default(s, k)
  BY <1>2, <1>3, <1>5, <1>6 DEF Below0
<1>10. ASSUME NEW doc, IsDocument(s, doc)
       PROVE  Lost(s, Load(s, Reread(s, doc))) = {}
  <2>1. IsDocument(s, Reread(s, doc))
    BY <1>7, <1>10, PlainLoads, SaveIsDocument DEF Tidy, WritesItsOwn, OfRuntime, Reread
  <2>2. ASSUME NEW k \in BackgroundSetters
        PROVE  ~(Load(s, Reread(s, doc))[k] < 0)
    BY <1>3, <1>4, <1>5, <2>1, LoadedAtLeast DEF OfRuntime, Positive
  <2> QED BY <1>2, <2>2 DEF Below0
<1> QED BY <1>7, <1>8, <1>9, <1>10 DEF Lossy

LEMMA Concurrency ==
    ASSUME NEW s \in Sections, OfRuntime(s), s = "concurrency"
    PROVE  Tidy(s) /\ Lossy(s)
<1>1. RowIs(s, ConcurrencyReads, ConcurrencyDefaults)
  BY OfRow DEF OfRuntime, RuntimeTable, RuntimeNames
<1>2. \A c : Written(s, c) = ConcurrencyWritten(c) /\ Lost(s, c) = ConcurrencyLost(c)
  BY DEF OfRuntime, RuntimeWritten, RuntimeLost
<1> DEFINE plain == ConcurrencySizes \cup ConcurrencyLists
<1>3. /\ Settings(s) = plain \cup {"enabled", "single_slot_only", "requeue_max"}
      /\ plain \cap {"enabled", "single_slot_only", "requeue_max"} = {}
  BY <1>1 DEF RowIs, ConcurrencyReads, ConcurrencySizes, ConcurrencyLists, All, @@, :>
<1>4. /\ \A k \in ConcurrencySizes : ConcurrencyReads[k] = Positive
      /\ \A k \in ConcurrencyLists : ConcurrencyReads[k] = AnyText
      /\ ConcurrencyReads["enabled"] = Flag /\ ConcurrencyReads["single_slot_only"] = Flag
      /\ ConcurrencyReads["requeue_max"] = NonNegative
  BY DEF ConcurrencyReads, ConcurrencySizes, ConcurrencyLists, All, @@, :>
<1>5. /\ \A k \in plain \cup {"enabled"} : k \notin DOMAIN ConcurrencyDefaults
      /\ DOMAIN ConcurrencyDefaults = {"single_slot_only", "requeue_max"}
      /\ ConcurrencyDefaults["single_slot_only"] = 1 /\ ConcurrencyDefaults["requeue_max"] = 1
  BY DEF ConcurrencyDefaults, ConcurrencySizes, ConcurrencyLists
<1>a. DOMAIN ConcurrencyReads = Settings(s)
  BY <1>1 DEF RowIs
<1> HIDE DEF plain
<1>6. ASSUME NEW k \in ConcurrencySizes
      PROVE  Default(s, k) = 0
  BY <1>1, <1>3, <1>4, <1>5, <1>a, DefaultOf, Zeros DEF plain
<1>7. Default(s, "enabled") = 0 /\ Default(s, "single_slot_only") = 1
      /\ Default(s, "requeue_max") = 1
  <2>1. Default(s, "enabled") = 0
    BY <1>1, <1>3, <1>4, <1>5, <1>a, DefaultOf, Zeros
  <2>2. ASSUME NEW k \in {"single_slot_only", "requeue_max"}
        PROVE  Default(s, k) = 1
    BY <1>1, <1>3, <1>5, <1>a, DefaultOf
  <2> QED BY <2>1, <2>2
<1>8. ASSUME NEW k \in ConcurrencyLists
      PROVE  Default(s, k) = Empty
  <2>1. /\ k \in DOMAIN ConcurrencyReads /\ k \notin DOMAIN ConcurrencyDefaults
        /\ ConcurrencyReads[k] = AnyText
    BY <1>3, <1>4, <1>5, <1>a DEF plain
  <2> QED BY <1>1, <2>1, DefaultOf, ZeroTexts
<1>9. ASSUME NEW c
      PROVE  Written(s, c) = Apart(s, c, plain)
                \cup When(c.enabled # 0 \/ c.single_slot_only = 0, {"enabled"})
                \cup When(c.single_slot_only = 0, {"single_slot_only"})
                \cup When(c.enabled # 0 /\ c.requeue_max # 1, {"requeue_max"})
  <2>1. On(c, ConcurrencySizes) = Apart(s, c, ConcurrencySizes)
    BY <1>6, OnIsApart
  <2>2. NonEmpty(c, ConcurrencyLists) = Apart(s, c, ConcurrencyLists)
    BY <1>8, NonEmptyIsApart
  <2>3. On(c, ConcurrencySizes) \cup NonEmpty(c, ConcurrencyLists) = Apart(s, c, plain)
    BY <2>1, <2>2 DEF Apart, plain
  <2> QED BY <1>2, <2>3 DEF ConcurrencyWritten
<1>10. Tidy(s)
  <2>1. \A c : Written(s, c) \subseteq Settings(s)
    BY <1>3, <1>9 DEF When, Apart
  <2>2. ASSUME NEW c, IsSettings(s, c), NEW k \in Settings(s) \ Written(s, c)
        PROVE  c[k] = Default(s, k) \/ k \in Lost(s, c) \/ Kept(s, k, c[k]) = Default(s, k)
    <3>1. CASE k \in plain
      BY <1>9, <2>2, <3>1 DEF Apart
    <3>2. CASE k = "enabled"
      BY <1>7, <1>9, <3>2, <2>2 DEF When
    <3>3. CASE k = "single_slot_only"
      <4>1. c[k] # 0
        BY <1>9, <3>3, <2>2 DEF When
      <4> QED BY <1>1, <1>3, <1>4, <1>7, <3>3, <4>1, FlagIsKept DEF RowIs
    <3>4. CASE k = "requeue_max"
      BY <1>2, <1>7, <1>9, <3>4, <2>2 DEF When, ConcurrencyLost
    <3> QED BY <1>3, <3>1, <3>2, <3>3, <3>4
  <2>3. ASSUME NEW k \in Settings(s)
        PROVE  \/ Sturdy(Kind(s, k), Default(s, k))
               \/ \A c : k \in Written(s, c) => c[k] # Default(s, k)
    <3>1. CASE k \in plain
      BY <1>3, <1>9, <3>1 DEF Apart, When
    <3>2. CASE k \in {"enabled", "single_slot_only"}
      BY <1>1, <1>3, <1>4, <1>7, <3>2 DEF RowIs, Sturdy, Flag
    <3>3. CASE k = "requeue_max"
      BY <1>1, <1>3, <1>4, <1>7, <3>3 DEF RowIs, Sturdy, NonNegative, AtLeast
    <3> QED BY <1>3, <3>1, <3>2, <3>3
  <2> QED BY <2>1, <2>2, <2>3, TidyByParts
<1>11. ASSUME NEW c
       PROVE  /\ Lost(s, c) \subseteq Settings(s) \ Written(s, c)
              /\ \A k \in Lost(s, c) : c[k] # Default(s, k)
  BY <1>2, <1>3, <1>7, <1>9 DEF ConcurrencyLost, When, Apart
<1>12. ASSUME NEW c
       PROVE  Lost(s, Load(s, Save(s, c))) = {}
  <2> DEFINE d == Load(s, Save(s, c))
  <2>1. CASE "requeue_max" \notin Written(s, c)
    <3>1. d.requeue_max = 1
      BY <1>3, <1>7, <2>1, OmittedIsDefault DEF OfRuntime
    <3> QED BY <1>2, <3>1 DEF ConcurrencyLost, When
  <2>2. CASE "requeue_max" \in Written(s, c)
    <3>1. "enabled" \in Written(s, c) /\ c.enabled # 0
      BY <1>3, <1>9, <2>2 DEF When, Apart
    <3>2. d.enabled # 0
      BY <1>1, <1>3, <1>4, <3>1, FlagIsReread DEF RowIs, OfRuntime
    <3> QED BY <1>2, <3>2 DEF ConcurrencyLost, When
  <2> QED BY <2>1, <2>2
<1> QED BY <1>10, <1>11, <1>12 DEF Lossy, Reread

LEMMA Compact ==
    ASSUME NEW s \in Sections, OfRuntime(s), s = "compact"
    PROVE  Tidy(s) /\ Lossy(s)
<1> DEFINE on == [enabled |-> 1]
           numbers == CompactSizes \cup {"from_record"}
<1>1. RowIs(s, CompactReads, on)
  BY OfRow DEF OfRuntime, RuntimeTable, RuntimeNames
<1>4. DOMAIN on = {"enabled"} /\ on["enabled"] = 1
  OBVIOUS
<1>2. \A c : Written(s, c) = CompactWritten(c) /\ Lost(s, c) = {}
  BY DEF OfRuntime, RuntimeWritten, RuntimeLost
<1>3. /\ DOMAIN CompactReads = {"enabled"} \cup numbers \cup {"per_tool"}
      /\ \A k \in CompactSizes : CompactReads[k] = Positive
      /\ CompactReads["enabled"] = Flag /\ CompactReads["from_record"] = Flag
      /\ CompactReads["per_tool"] = AnyText
      /\ "enabled" \notin numbers \cup {"per_tool"}
  BY DEF CompactReads, CompactSizes, All, @@, :>
<1> HIDE DEF on, numbers
<1>5. ASSUME NEW k \in numbers
      PROVE  Default(s, k) = 0
  BY <1>1, <1>3, <1>4, <1>5, DefaultOf, Zeros DEF numbers
<1>6. Default(s, "per_tool") = Empty
  <2>1. /\ "per_tool" \in DOMAIN CompactReads /\ "per_tool" \notin DOMAIN on
        /\ CompactReads["per_tool"] = AnyText
    BY <1>1, <1>3, <1>4
  <2> QED BY <1>1, <2>1, DefaultOf, ZeroTexts
<1>7. Kind(s, "enabled") = Flag /\ Default(s, "enabled") = 1
  BY <1>1, <1>3, <1>4, DefaultOf
<1>8. ASSUME NEW c
      PROVE  Written(s, c) = When(c.enabled = 0 \/ Apart(s, c, numbers \cup {"per_tool"}) # {},
                               {"enabled"} \cup Apart(s, c, numbers \cup {"per_tool"}))
  <2>1. On(c, numbers) = Apart(s, c, numbers)
    BY <1>5, OnIsApart
  <2>2. NonEmpty(c, {"per_tool"}) = Apart(s, c, {"per_tool"})
    BY <1>6, NonEmptyIsApart
  <2>3. c.per_tool # Empty <=> NonEmpty(c, {"per_tool"}) # {}
    BY Zenon DEF NonEmpty, Empty
  <2>4. c.from_record # 0 \/ On(c, CompactSizes) # {} <=> On(c, numbers) # {}
    BY DEF On, numbers
  <2>5. Apart(s, c, numbers \cup {"per_tool"}) = On(c, numbers) \cup NonEmpty(c, {"per_tool"})
    BY <2>1, <2>2 DEF Apart
  <2> HIDE DEF NonEmpty, On
  <2> QED BY <1>2, <2>3, <2>4, <2>5 DEF CompactWritten, When, numbers
<1>9. Settings(s) = {"enabled"} \cup (numbers \cup {"per_tool"})
  BY <1>1, <1>3 DEF RowIs
<1> QED BY <1>2, <1>3, <1>7, <1>8, <1>9, BlocksAreTidy

LEMMA Closet ==
    ASSUME NEW s \in Sections, OfRuntime(s), s = "compact.coord_closet"
    PROVE  Tidy(s) /\ Lossy(s)
<1> DEFINE on == [enabled |-> 1]
<1>1. RowIs(s, ClosetReads, on)
  BY OfRow DEF OfRuntime, RuntimeTable, RuntimeNames
<1>4. DOMAIN on = {"enabled"} /\ on["enabled"] = 1
  OBVIOUS
<1>2. \A c : Written(s, c) = ClosetWritten(c) /\ Lost(s, c) = {}
  BY DEF OfRuntime, RuntimeWritten, RuntimeLost
<1>3. /\ DOMAIN ClosetReads = {"enabled"} \cup ClosetSizes \cup {"denylist"}
      /\ \A k \in ClosetSizes : ClosetReads[k] = Positive
      /\ ClosetReads["enabled"] = Flag /\ ClosetReads["denylist"] = AnyText
      /\ "enabled" \notin ClosetSizes \cup {"denylist"}
  BY DEF ClosetReads, ClosetSizes, All, @@
<1> HIDE DEF on
<1>5. ASSUME NEW k \in ClosetSizes
      PROVE  Default(s, k) = 0
  BY <1>1, <1>3, <1>4, <1>5, DefaultOf, Zeros
<1>6. Default(s, "denylist") = Empty
  <2>1. /\ "denylist" \in DOMAIN ClosetReads /\ "denylist" \notin DOMAIN on
        /\ ClosetReads["denylist"] = AnyText
    BY <1>1, <1>3, <1>4
  <2> QED BY <1>1, <2>1, DefaultOf, ZeroTexts
<1>7. Kind(s, "enabled") = Flag /\ Default(s, "enabled") = 1
  BY <1>1, <1>3, <1>4, DefaultOf
<1>8. ASSUME NEW c
      PROVE  Written(s, c) = When(c.enabled = 0 \/ Apart(s, c, ClosetSizes \cup {"denylist"}) # {},
                               {"enabled"} \cup Apart(s, c, ClosetSizes \cup {"denylist"}))
  <2>1. On(c, ClosetSizes) = Apart(s, c, ClosetSizes)
    BY <1>5, OnIsApart
  <2>2. NonEmpty(c, {"denylist"}) = Apart(s, c, {"denylist"})
    BY <1>6, NonEmptyIsApart
  <2>3. c.denylist # Empty <=> NonEmpty(c, {"denylist"}) # {}
    BY Zenon DEF NonEmpty, Empty
  <2>4. Apart(s, c, ClosetSizes \cup {"denylist"}) = On(c, ClosetSizes) \cup NonEmpty(c, {"denylist"})
    BY <2>1, <2>2 DEF Apart
  <2> QED BY <1>2, <2>3, <2>4 DEF ClosetWritten, When, Empty
<1>9. Settings(s) = {"enabled"} \cup (ClosetSizes \cup {"denylist"})
  BY <1>1, <1>3 DEF RowIs
<1> QED BY <1>2, <1>3, <1>7, <1>8, <1>9, BlocksAreTidy

LEMMA Sandbox ==
    ASSUME NEW s \in Sections, OfRuntime(s), s = "sandbox"
    PROVE  Tidy(s) /\ Lossy(s)
<1>1. RowIs(s, SandboxReads, SandboxDefaults)
  BY OfRow DEF OfRuntime, RuntimeTable, RuntimeNames
<1>2. \A c : Written(s, c) = SandboxWritten(c) /\ Lost(s, c) = {}
  BY DEF OfRuntime, RuntimeWritten, RuntimeLost
<1>3. /\ DOMAIN SandboxReads = {"mode", "network", "allow_paths"}
      /\ SandboxReads["network"] = Flag /\ SandboxReads["allow_paths"] = AnyText
      /\ SandboxReads["mode"][1] = "oneof"
      /\ DOMAIN SandboxDefaults = {"mode"} /\ SandboxDefaults["mode"] = "workspace_only"
  BY DEF SandboxReads, SandboxDefaults, OneOf
<1>4. Default(s, "mode") = "workspace_only"
  BY <1>1, <1>3, DefaultOf
<1>5. Default(s, "network") = 0
  BY <1>1, <1>3, DefaultOf, Zeros
<1>6. Default(s, "allow_paths") = Empty
  <2>1. /\ "allow_paths" \in DOMAIN SandboxReads /\ "allow_paths" \notin DOMAIN SandboxDefaults
        /\ SandboxReads["allow_paths"] = AnyText
    BY <1>3
  <2> QED BY <1>1, <2>1, DefaultOf, ZeroTexts
<1> DEFINE rest == {"network", "allow_paths"}
<1>7. ASSUME NEW c
      PROVE  Written(s, c) = When(c.mode # Default(s, "mode") \/ Apart(s, c, rest) # {},
                               {"mode"} \cup Apart(s, c, rest))
  <2>1. On(c, {"network"}) = Apart(s, c, {"network"})
    BY <1>5, OnIsApart
  <2>2. NonEmpty(c, {"allow_paths"}) = Apart(s, c, {"allow_paths"})
    BY <1>6, NonEmptyIsApart
  <2>3. c.allow_paths # Empty <=> NonEmpty(c, {"allow_paths"}) # {}
    BY Zenon DEF NonEmpty, Empty
  <2>4. c.network # 0 <=> On(c, {"network"}) # {}
    BY DEF On
  <2>5. Apart(s, c, rest) = On(c, {"network"}) \cup NonEmpty(c, {"allow_paths"})
    BY <2>1, <2>2 DEF Apart
  <2> HIDE DEF rest
  <2> QED BY <1>2, <1>4, <2>3, <2>4, <2>5 DEF SandboxWritten, When
<1>8. Settings(s) = {"mode"} \cup rest
  BY <1>1, <1>3 DEF RowIs
<1>9. ASSUME NEW c
      PROVE  /\ Written(s, c) \subseteq Settings(s)
             /\ \A k \in Settings(s) \ Written(s, c) : c[k] = Default(s, k)
  BY <1>7, <1>8 DEF When, Apart
<1>10. ASSUME NEW k \in Settings(s)
       PROVE  Sturdy(Kind(s, k), Default(s, k))
  <2>1. CASE k = "mode"
    BY <1>1, <1>3, <2>1, DefaultOf DEF Sturdy
  <2>2. CASE k = "network"
    BY <1>1, <1>3, <1>5, <2>2, DefaultOf DEF Sturdy, Flag
  <2>3. CASE k = "allow_paths"
    BY <1>1, <1>3, <2>3, DefaultOf DEF Sturdy, AnyText
  <2> QED BY <1>8, <2>1, <2>2, <2>3
<1> QED BY <1>2, <1>9, <1>10, WholesAreTidy DEF Kept

LEMMA Integrity ==
    ASSUME NEW s \in Sections, OfRuntime(s), s = "integrity"
    PROVE  Tidy(s) /\ Lossy(s)
<1>1. RowIs(s, IntegrityReads, IntegrityDefaults)
  BY OfRow DEF OfRuntime, RuntimeTable, RuntimeNames
<1>2. \A c : Written(s, c) = IntegrityWritten(c) /\ Lost(s, c) = {}
  BY DEF OfRuntime, RuntimeWritten, RuntimeLost
<1>3. /\ DOMAIN IntegrityReads = {"enabled", "dry_run"}
      /\ IntegrityReads["enabled"] = Flag /\ IntegrityReads["dry_run"] = Flag
      /\ DOMAIN IntegrityDefaults = {"dry_run"} /\ IntegrityDefaults["dry_run"] = 1
  BY DEF IntegrityReads, IntegrityDefaults, All
<1>4. Default(s, "enabled") = 0
  BY <1>1, <1>3, DefaultOf, Zeros
<1>5. Default(s, "dry_run") = 1
  BY <1>1, <1>3, DefaultOf
<1>6. /\ Settings(s) = {"enabled", "dry_run"}
      /\ Kind(s, "enabled") = Flag /\ Kind(s, "dry_run") = Flag
  BY <1>1, <1>3 DEF RowIs
<1>7. ASSUME NEW c, NEW k \in Settings(s) \ Written(s, c)
      PROVE  Kept(s, k, c[k]) = Default(s, k)
  <2>1. c["enabled"] = 0 /\ c["dry_run"] # 0
    BY <1>2, <1>6, <1>7 DEF IntegrityWritten, When
  <2>2. CASE k = "enabled"
    BY <1>4, <2>1, <2>2 DEF Kept
  <2>3. CASE k = "dry_run"
    BY <1>5, <1>6, <2>1, <2>3, FlagIsKept
  <2> QED BY <1>6, <2>2, <2>3
<1>8. \A c : Written(s, c) \subseteq Settings(s)
  BY <1>2, <1>6 DEF IntegrityWritten, When
<1>9. \A k \in Settings(s) : Sturdy(Kind(s, k), Default(s, k))
  BY <1>4, <1>5, <1>6 DEF Sturdy, Flag
<1> QED BY <1>2, <1>7, <1>8, <1>9, WholesAreTidy

LEMMA WorktreeGc ==
    ASSUME NEW s \in Sections, OfRuntime(s), s = "worktree_gc"
    PROVE  Tidy(s) /\ Lossy(s)
<1>1. RowIs(s, WorktreeGcReads, WorktreeGcDefaults)
  BY OfRow DEF OfRuntime, RuntimeTable, RuntimeNames
<1>2. \A c : Written(s, c) = WorktreeGcWritten(c) /\ Lost(s, c) = {}
  BY DEF OfRuntime, RuntimeWritten, RuntimeLost
<1>3. /\ DOMAIN WorktreeGcReads = {"enabled", "max_age_days"}
      /\ WorktreeGcReads["enabled"] = Flag /\ WorktreeGcReads["max_age_days"] = Positive
      /\ DOMAIN WorktreeGcDefaults = {"enabled", "max_age_days"}
      /\ WorktreeGcDefaults["enabled"] = 1
  BY DEF WorktreeGcReads, WorktreeGcDefaults
<1>4. /\ Settings(s) = {"enabled", "max_age_days"}
      /\ Kind(s, "enabled") = Flag /\ Kind(s, "max_age_days") = Positive
      /\ Default(s, "enabled") = 1
      /\ \A k \in Settings(s) : Default(s, k) = WorktreeGcDefaults[k]
  BY <1>1, <1>3 DEF RowIs
<1>5. \A c : /\ Written(s, c) \subseteq Settings(s)
             /\ \A k \in Settings(s) \ Written(s, c) : Kept(s, k, c[k]) = Default(s, k)
  BY <1>2, <1>3, <1>4 DEF WorktreeGcWritten, When, Differing, Kept
<1>6. \A k \in Settings(s) : Sturdy(Kind(s, k), Default(s, k))
  BY <1>4 DEF Sturdy, Flag, Positive, AtLeast
<1> QED BY <1>2, <1>5, <1>6, WholesAreTidy

LEMMA VirtualContext ==
    ASSUME NEW s \in Sections, OfRuntime(s), s = "session.virtual_context"
    PROVE  Tidy(s) /\ Lossy(s)
<1>1. RowIs(s, VirtualContextReads, VirtualContextDefaults)
  BY OfRow DEF OfRuntime, RuntimeTable, RuntimeNames
<1>2. \A c : Written(s, c) = {} /\ Lost(s, c) = VirtualContextLost(c)
  BY DEF OfRuntime, RuntimeWritten, RuntimeLost
<1>3. DOMAIN VirtualContextReads = DOMAIN VirtualContextDefaults
  BY DEF VirtualContextReads, VirtualContextDefaults
<1>4. ASSUME NEW c
      PROVE  Lost(s, c) = Apart(s, c, Settings(s))
  BY <1>1, <1>2, <1>3, DifferingIsApart DEF RowIs, VirtualContextLost
<1> QED BY <1>2, <1>4, UnsavedIsLossy DEF OfRuntime

LEMMA Fold ==
    ASSUME NEW s \in Sections, OfRuntime(s), s = "fold"
    PROVE  Tidy(s) /\ Lossy(s)
<1> DEFINE flags == {"enabled", "register_enabled", "freeze.enabled", "recall.enabled",
                     "recall.inject"}
           sizes == FoldSizes \cup {"freeze.tail_cap_msgs", "recall.ttl_turns"}
<1>1. RowIs(s, FoldReads, FoldDefaults)
  BY OfRow DEF OfRuntime, RuntimeTable, RuntimeNames
<1>2. \A c : Written(s, c) = FoldWritten(c) /\ Lost(s, c) = FoldLost(c)
  BY DEF OfRuntime, RuntimeWritten, RuntimeLost
<1>3. /\ DOMAIN FoldReads = flags \cup sizes
      /\ \A k \in flags : FoldReads[k] = Flag
      /\ \A k \in sizes : FoldReads[k] = Positive
      /\ DOMAIN FoldDefaults = {"recall.enabled"} /\ FoldDefaults["recall.enabled"] = 1
  BY DEF FoldReads, FoldSizes, FoldDefaults, All, @@, :>
<1>4. Settings(s) = flags \cup sizes
  BY <1>1, <1>3 DEF RowIs
<1>5. ASSUME NEW k \in flags
      PROVE  Kind(s, k) = Flag
  BY <1>1, <1>3, <1>5, DefaultOf
<1>6. ASSUME NEW k \in sizes
      PROVE  Kind(s, k) = Positive
  BY <1>1, <1>3, <1>6, DefaultOf
<1>7. Default(s, "recall.enabled") = 1
  BY <1>1, <1>3, DefaultOf
<1>8. ASSUME NEW k \in Settings(s) \ {"recall.enabled"}
      PROVE  Default(s, k) = 0
  BY <1>1, <1>3, <1>4, <1>8, DefaultOf, Zeros
<1> DEFINE recalls(c) == c["recall.enabled"] # 0 \/ c["recall.ttl_turns"] # 0
<1>9. ASSUME NEW c
      PROVE  /\ Written(s, c) \subseteq Settings(s)
             /\ \A k \in Settings(s) \ {"recall.enabled", "recall.inject"} :
                   k \notin Written(s, c) => c[k] = 0
             /\ "recall.enabled" \in Written(s, c) <=> recalls(c)
             /\ "recall.ttl_turns" \in Written(s, c) <=> c["recall.ttl_turns"] # 0
             /\ "recall.inject" \in Written(s, c) <=> recalls(c) /\ c["recall.inject"] # 0
  BY <1>2, <1>4 DEF FoldWritten, FoldSizes, When, On
<1>10. ASSUME NEW c
       PROVE  /\ recalls(c) => Lost(s, c) = {}
              /\ ~recalls(c) => Lost(s, c) = {"recall.enabled"} \cup On(c, {"recall.inject"})
  BY <1>2 DEF FoldLost, When, On
<1>11. Tidy(s)
  <2>1. ASSUME NEW c, NEW k \in Settings(s) \ Written(s, c)
        PROVE  c[k] = Default(s, k) \/ k \in Lost(s, c)
    <3>1. CASE k = "recall.enabled"
      BY <1>9, <1>10, <2>1, <3>1
    <3>2. CASE k = "recall.inject"
      BY <1>8, <1>9, <1>10, <2>1, <3>2 DEF On
    <3>3. CASE k \notin {"recall.enabled", "recall.inject"}
      BY <1>8, <1>9, <2>1, <3>3
    <3> QED BY <3>1, <3>2, <3>3
  <2>2. ASSUME NEW k \in Settings(s)
        PROVE  Sturdy(Kind(s, k), Default(s, k))
    <3>1. CASE k \in flags
      BY <1>4, <1>5, <1>7, <1>8, <3>1 DEF Sturdy, Flag
    <3>2. CASE k \in sizes
      BY <1>6, <3>2 DEF Sturdy, Positive, AtLeast
    <3> QED BY <1>4, <3>1, <3>2
  <2> QED BY <1>9, <2>1, <2>2, TidyByParts
<1>12. ASSUME NEW c
       PROVE  /\ Lost(s, c) \subseteq Settings(s) \ Written(s, c)
              /\ \A k \in Lost(s, c) : c[k] # Default(s, k)
  BY <1>4, <1>7, <1>8, <1>9, <1>10 DEF On
<1>13. ASSUME NEW doc, IsDocument(s, doc)
       PROVE  Lost(s, Load(s, Reread(s, doc))) = {}
  <2> DEFINE c == Load(s, doc)
             d == Load(s, Save(s, c))
  <2>0. Plain(s) /\ "recall.enabled" \in Settings(s) /\ "recall.ttl_turns" \in Settings(s)
    BY <1>4 DEF OfRuntime
  <2>1. CASE ~recalls(c)
    <3>1. d["recall.enabled"] = 1
      BY <1>7, <1>9, <2>0, <2>1, OmittedIsDefault
    <3> QED BY <1>10, <3>1 DEF Reread
  <2>2. CASE c["recall.enabled"] # 0
    <3>1. "recall.enabled" \in Written(s, c)
      BY <1>9, <2>2
    <3>2. d["recall.enabled"] = 1
      BY <1>5, <2>0, <2>2, <3>1, FlagIsReread
    <3> QED BY <1>10, <3>2 DEF Reread
  <2>3. CASE c["recall.ttl_turns"] # 0
    <3>1. "recall.ttl_turns" \in Written(s, c)
      BY <1>9, <2>3
    <3>2. Kind(s, "recall.ttl_turns") = AtLeast(1) /\ Default(s, "recall.ttl_turns") = 0
      BY <1>6, <1>8, <2>0 DEF Positive
    <3>3. c["recall.ttl_turns"] \in Int /\ c["recall.ttl_turns"] >= 1
      BY <1>13, <2>0, <2>3, <3>2, LoadedAtLeast
    <3>4. d["recall.ttl_turns"] = c["recall.ttl_turns"]
      BY <2>0, <3>1, <3>2, <3>3, NumberIsReread
    <3> QED BY <1>10, <2>3, <3>4 DEF Reread
  <2> QED BY <2>1, <2>2, <2>3
<1> QED BY <1>11, <1>12, <1>13 DEF Lossy

LEMMA Skills ==
    ASSUME NEW s \in Sections, OfRuntime(s), s = "skills"
    PROVE  Tidy(s) /\ Lossy(s)
<1> DEFINE whole == SkillsSizes \cup SkillsFlags \cup {"eval.threshold"}
           defaults == Filled(SkillsReads, SkillsDefaults)
<1>1. RowIs(s, SkillsReads, SkillsDefaults) /\ Table[s].defaults = defaults
  BY OfRow DEF OfRuntime, RuntimeTable, RuntimeNames, Row
<1>2. \A c : Written(s, c) = SkillsWritten(c) /\ Lost(s, c) = {}
  BY DEF OfRuntime, RuntimeWritten, RuntimeLost
<1>3. DOMAIN SkillsReads = whole \cup {"review.enabled"}
  BY DEF SkillsReads, SkillsSizes, SkillsFlags, All, @@, :>
<1>4. \A k \in SkillsSizes : SkillsReads[k] = Positive
  BY DEF SkillsReads, SkillsSizes, All, @@
<1>5. \A k \in SkillsFlags : SkillsReads[k] = Flag
  BY DEF SkillsReads, SkillsSizes, SkillsFlags, All, @@
<1>6. SkillsReads["review.enabled"] = Truth /\ SkillsReads["eval.threshold"] = NonNegative
  BY DEF SkillsReads, SkillsSizes, SkillsFlags, All, @@, :>
<1>7. /\ "review.enabled" \notin DOMAIN SkillsDefaults
      /\ \A k \in SkillsFlags \cap DOMAIN SkillsDefaults : SkillsDefaults[k] = 1
  BY DEF SkillsDefaults, SkillsFlags, @@, :>
<1>8. Settings(s) = whole \cup {"review.enabled"} /\ DOMAIN defaults = Settings(s)
  BY <1>1, <1>3 DEF RowIs
<1>9. Default(s, "review.enabled") = 0
  BY <1>1, <1>3, <1>6, <1>7, DefaultOf, Zeros
<1>10. ASSUME NEW k \in SkillsFlags
       PROVE  Default(s, k) \in {0, 1}
  BY <1>1, <1>3, <1>5, <1>7, <1>10, DefaultOf, Zeros
<1> HIDE DEF defaults
<1>11. ASSUME NEW c
       PROVE  Written(s, c) = When(Apart(s, c, Settings(s)) # {},
                                 whole \cup On(c, {"review.enabled"}))
  <2>1. Differing(c, defaults) = Apart(s, c, Settings(s))
    BY <1>1, <1>8, DifferingIsApart DEF Default
  <2> QED BY <1>2, <2>1 DEF SkillsWritten, defaults
<1> HIDE DEF whole
<1>12. ASSUME NEW c
       PROVE  /\ Written(s, c) \subseteq Settings(s)
              /\ \A k \in Settings(s) \ Written(s, c) : c[k] = Default(s, k)
  BY <1>8, <1>9, <1>11 DEF When, On, Apart
<1>13. ASSUME NEW k \in Settings(s)
       PROVE  Sturdy(Kind(s, k), Default(s, k))
  <2>1. k \in DOMAIN SkillsReads /\ Kind(s, k) = SkillsReads[k]
    BY <1>1 DEF RowIs
  <2>2. CASE k \in SkillsSizes
    BY <1>4, <2>1, <2>2 DEF Sturdy, Positive, AtLeast
  <2>3. CASE k \in SkillsFlags
    BY <1>5, <1>10, <2>1, <2>3 DEF Sturdy, Flag
  <2>4. CASE k = "review.enabled"
    BY <1>6, <1>9, <2>1, <2>4 DEF Sturdy, Truth
  <2>5. CASE k = "eval.threshold"
    BY <1>6, <2>1, <2>5 DEF Sturdy, NonNegative, AtLeast
  <2> QED BY <1>8, <2>2, <2>3, <2>4, <2>5 DEF whole
<1> QED BY <1>2, <1>12, <1>13, WholesAreTidy DEF Kept

LEMMA RuntimeIsSound ==
    ASSUME NEW s \in Sections, OfRuntime(s)
    PROVE  Sound(s)
<1>1. DOMAIN RuntimeTable = {"retry", "cross_verify", "limits", "concurrency", "compact",
        "compact.coord_closet", "fold", "modules", "economizer", "autonomy", "sessions",
        "sandbox", "prompt", "rewind", "integrity", "worktree_gc", "skills",
        "session.virtual_context"}
  BY DEF RuntimeTable, RuntimeNames
<1>2. s \in DOMAIN RuntimeTable /\ Plain(s)
  BY DEF OfRuntime
<1>3. Tidy(s) /\ Lossy(s)
  BY <1>1, <1>2, Retry, CrossVerify, Limits, Concurrency, Compact, Closet, Fold, Modules,
     Economizer, Autonomy, Sessions, Sandbox, Prompt, Rewind, Integrity, WorktreeGc, Skills,
     VirtualContext
<1>4. Reloads(s)
  <2>1. CASE s = "economizer"
    BY <2>1, Economizer
  <2>2. CASE s # "economizer"
    BY <2>2 DEF OfRuntime, Reloads
  <2> QED BY <2>1, <2>2
<1> QED BY <1>2, <1>3, <1>4, PlainIsSound

-----------------------------------------------------------------------------
(* FlatSections.                                                           *)

\* What MCSettings makes of the constants for a section of FlatTable.
OfFlat(s) ==
    /\ s \in DOMAIN FlatTable /\ Table[s] = FlatTable[s]
    /\ \A c : Written(s, c) = FlatWritten(s, c) /\ Lost(s, c) = FlatLost(s, c)
    /\ \A doc : /\ Start(s, doc) = Table[s].defaults
                /\ Forced(s, doc) = IF s = "kb_pdf" THEN PdfForced(doc) ELSE Zeroed
                /\ Loads(s, doc)

LEMMA OptIn ==
    ASSUME NEW s \in Sections, OfFlat(s), s = "opt-in"
    PROVE  Tidy(s) /\ Lossy(s)
<1>1. RowIs(s, OptInReads, Zeroed)
  BY OfRow DEF OfFlat, FlatTable, FlatNames
<1>2. \A c : Written(s, c) = OptInWritten(c) /\ Lost(s, c) = {}
  BY DEF OfFlat, FlatWritten, FlatLost
<1>3. ASSUME NEW k \in Settings(s)
      PROVE  Default(s, k) = 0
  <2>1. OptInReads[k] = Flag
    BY <1>1 DEF RowIs, OptInReads, All
  <2> QED BY <1>1, <2>1, Zeros DEF RowIs, Zeroed
<1>4. ASSUME NEW c
      PROVE  Written(s, c) = Apart(s, c, Settings(s))
  BY <1>1, <1>2, <1>3, OnIsApart DEF RowIs, OptInWritten
<1> QED BY <1>2, <1>4, DifferencesAreTidy

\* Flags that are on by default and are written when they are off.
LEMMA OffsAreTidy ==
    ASSUME NEW s \in Sections, \A c : Lost(s, c) = {}, \A c : Written(s, c) = OptOutWritten(c),
           \A k \in Settings(s) : Kind(s, k) = Flag /\ Default(s, k) = 1
    PROVE  Tidy(s) /\ Lossy(s)
<1>1. ASSUME NEW c, Shaped(s, c)
      PROVE  Written(s, c) = {k \in Settings(s) : c[k] = 0}
  BY <1>1 DEF OptOutWritten, On, Shaped
<1>2. ASSUME NEW c, IsSettings(s, c), NEW k \in Settings(s) \ Written(s, c)
      PROVE  Kept(s, k, c[k]) = Default(s, k)
  BY <1>1, <1>2, FlagIsKept DEF IsSettings
<1>3. \A k \in Settings(s) : Sturdy(Kind(s, k), Default(s, k))
  BY DEF Sturdy, Flag
<1> QED BY <1>1, <1>2, <1>3, WholesAreTidy

LEMMA OptOut ==
    ASSUME NEW s \in Sections, OfFlat(s), s = "opt-out"
    PROVE  Tidy(s) /\ Lossy(s)
<1> DEFINE ones == All(1, DOMAIN OptOutReads)
<1>1. RowIs(s, OptOutReads, ones)
  BY OfRow DEF OfFlat, FlatTable, FlatNames
<1>2. \A c : Written(s, c) = OptOutWritten(c) /\ Lost(s, c) = {}
  BY DEF OfFlat, FlatWritten, FlatLost
<1>3. \A k \in DOMAIN OptOutReads : OptOutReads[k] = Flag /\ k \in DOMAIN ones /\ ones[k] = 1
  BY DEF OptOutReads, All
<1> HIDE DEF ones
<1>4. \A k \in Settings(s) : Kind(s, k) = Flag /\ Default(s, k) = 1
  BY <1>1, <1>3 DEF RowIs
<1> QED BY <1>2, <1>4, OffsAreTidy

LEMMA Switches ==
    ASSUME NEW s \in Sections, OfFlat(s), s = "switches"
    PROVE  Tidy(s) /\ Lossy(s)
<1>1. RowIs(s, SwitchesReads, SwitchesDefaults)
  BY OfRow DEF OfFlat, FlatTable, FlatNames
<1>2. \A c : Written(s, c) = OptOutWritten(c) /\ Lost(s, c) = {}
  BY DEF OfFlat, FlatWritten, FlatLost
<1>3. \A k \in DOMAIN SwitchesReads :
         SwitchesReads[k] = Flag /\ k \in DOMAIN SwitchesDefaults /\ SwitchesDefaults[k] = 1
  BY DEF SwitchesReads, SwitchesDefaults, All
<1>4. \A k \in Settings(s) : Kind(s, k) = Flag /\ Default(s, k) = 1
  BY <1>1, <1>3 DEF RowIs
<1> QED BY <1>2, <1>4, OffsAreTidy

LEMMA Render ==
    ASSUME NEW s \in Sections, OfFlat(s), s = "css_render_command"
    PROVE  Tidy(s) /\ Lossy(s)
<1>1. RowIs(s, RenderReads, RenderDefaults)
  BY OfRow DEF OfFlat, FlatTable, FlatNames
<1>2. \A c : Written(s, c) = RenderWritten(c) /\ Lost(s, c) = {}
  BY DEF OfFlat, FlatWritten, FlatLost
<1>3. DOMAIN RenderReads = DOMAIN RenderDefaults
  BY DEF RenderReads, RenderDefaults
<1>4. ASSUME NEW c
      PROVE  Written(s, c) = Apart(s, c, Settings(s))
  BY <1>1, <1>2, <1>3, DifferingIsApart DEF RowIs, RenderWritten
<1> QED BY <1>2, <1>4, DifferencesAreTidy

LEMMA Delegate ==
    ASSUME NEW s \in Sections, OfFlat(s), s = "delegate_sandbox"
    PROVE  Tidy(s) /\ Lossy(s)
<1> DEFINE image == "delegate_sandbox_image"
           access == "delegate_sandbox_package_access"
<1>1. RowIs(s, DelegateReads, DelegateDefaults)
  BY OfRow DEF OfFlat, FlatTable, FlatNames
<1>2. \A c : Written(s, c) = DelegateWritten(c) /\ Lost(s, c) = {}
  BY DEF OfFlat, FlatWritten, FlatLost
<1>3. /\ DOMAIN DelegateReads = {image, access}
      /\ DelegateReads[image] = Text
      /\ DelegateReads[access][1] = "oneof"
      /\ DOMAIN DelegateDefaults = {access} /\ DelegateDefaults[access] = "proxy"
      /\ image # access
  BY DEF DelegateReads, DelegateDefaults, OneOf
<1>a. Empty \notin DelegateReads[access][2]
  BY DEF DelegateReads, OneOf, PackageModes, Empty
<1> HIDE DEF image, access
<1>4. Default(s, access) = "proxy"
  BY <1>1, <1>3, DefaultOf
<1>5. Default(s, image) = Empty
  <2>1. image \in DOMAIN DelegateReads /\ image \notin DOMAIN DelegateDefaults
        /\ DelegateReads[image] = Text
    BY <1>3
  <2> QED BY <1>1, <2>1, DefaultOf, ZeroTexts
<1>6. Settings(s) = {image, access} 
      /\ Kind(s, image) = DelegateReads[image] /\ Kind(s, access) = DelegateReads[access]
  BY <1>1, <1>3 DEF RowIs
<1>7. ASSUME NEW c
      PROVE  /\ image \in Written(s, c) <=> c[image] # Empty
             /\ access \in Written(s, c) <=> c[access] \notin {Empty, "proxy"}
             /\ Written(s, c) \subseteq Settings(s)
  <2>1. image \in NonEmpty(c, {image}) <=> c[image] # Empty
    BY Zenon DEF NonEmpty, Empty
  <2>2. NonEmpty(c, {image}) \subseteq {image}
    BY Zenon DEF NonEmpty, Empty
  <2>3. Written(s, c) = NonEmpty(c, {image}) \cup When(c[access] \notin {Empty, "proxy"}, {access})
    BY <1>2 DEF DelegateWritten, image, access, Empty
  <2> QED BY <1>3, <1>6, <2>1, <2>2, <2>3 DEF When
<1>8. ASSUME NEW c, NEW k \in Settings(s) \ Written(s, c)
      PROVE  c[k] = Default(s, k) \/ ~Legal(s, k, c[k])
  <2>1. CASE k = image
    BY <1>5, <1>7, <1>8, <2>1
  <2>2. CASE k = access
    <3>1. c[k] \in {Default(s, k), Empty}
      BY <1>4, <1>7, <1>8, <2>2
    <3>2. Kind(s, k)[1] = "oneof" /\ Empty \notin Kind(s, k)[2]
      BY <1>3, <1>a, <1>6, <2>2
    <3> QED BY <3>1, <3>2, EmptyIsRefused
  <2> QED BY <1>6, <2>1, <2>2
<1>9. ASSUME NEW k \in Settings(s)
      PROVE  Sturdy(Kind(s, k), Default(s, k))
  <2>1. Kind(s, k)[1] \in {"text", "oneof"}
    BY <1>3, <1>6 DEF Text
  <2> QED BY <2>1 DEF Sturdy
<1> QED BY <1>2, <1>7, <1>8, <1>9, WholesAreTidy DEF Kept

LEMMA Vault ==
    ASSUME NEW s \in Sections, OfFlat(s), s = "vault"
    PROVE  Tidy(s) /\ Lossy(s)
<1> DEFINE texts == {"custody", "tcti", "nv_index"}
<1>1. RowIs(s, VaultReads, VaultDefaults) /\ Table[s].defaults = Filled(VaultReads, VaultDefaults)
  BY OfRow DEF OfFlat, FlatTable, FlatNames, Row
<1>2. \A c : Written(s, c) = VaultWritten(c) /\ Lost(s, c) = {}
  BY DEF OfFlat, FlatWritten, FlatLost
<1>3. /\ DOMAIN VaultReads = texts \cup {"blob_path"} /\ "blob_path" \notin texts
      /\ \A k \in texts : VaultReads[k] = Text
      /\ VaultReads["blob_path"] = AnyText
      /\ DOMAIN VaultDefaults = texts
  BY DEF VaultReads, VaultDefaults, All, @@, :>
<1> HIDE DEF texts
<1>4. Default(s, "blob_path") = Empty
  BY <1>1, <1>3, DefaultOf, ZeroTexts
<1>5. /\ Settings(s) = texts \cup {"blob_path"}
      /\ \A k \in texts : Kind(s, k) = Text
      /\ Kind(s, "blob_path") = AnyText
  BY <1>1, <1>3 DEF RowIs
<1>6. ASSUME NEW c
      PROVE  Written(s, c) = {k \in Settings(s) : c[k] \notin {Empty, Default(s, k)}}
  BY Zenon, <1>1, <1>2 DEF VaultWritten, RowIs, Default, Empty
<1>7. ASSUME NEW c, NEW k \in Settings(s) \ Written(s, c)
      PROVE  c[k] = Default(s, k) \/ ~Legal(s, k, c[k])
  <2>1. c[k] = Default(s, k) \/ c[k] = Empty
    BY <1>6, <1>7
  <2>2. CASE k \in texts
    <3>1. Kind(s, k)[1] = "text"
      BY <1>5, <2>2 DEF Text
    <3> QED BY <2>1, <3>1, EmptyIsRefused
  <2>3. CASE k = "blob_path"
    BY <1>4, <2>1, <2>3
  <2> QED BY <1>5, <2>2, <2>3
<1>8. \A k \in Settings(s) : Sturdy(Kind(s, k), Default(s, k))
  BY <1>5 DEF Sturdy, Text, AnyText
<1>9. \A c : Written(s, c) \subseteq Settings(s)
  BY <1>6
<1> QED BY <1>2, <1>7, <1>8, <1>9, WholesAreTidy DEF Kept

LEMMA Embedder ==
    ASSUME NEW s \in Sections, OfFlat(s), s = "embedder"
    PROVE  Tidy(s) /\ Lossy(s)
<1>1. RowIs(s, EmbedderReads, Zeroed)
  BY OfRow DEF OfFlat, FlatTable, FlatNames
<1>2. \A c : Written(s, c) = EmbedderWritten(c) /\ Lost(s, c) = {}
  BY DEF OfFlat, FlatWritten, FlatLost
<1>3. /\ DOMAIN EmbedderReads = EmbedderTexts \cup {"embedder_dims"}
      /\ "embedder_dims" \notin EmbedderTexts
      /\ \A k \in EmbedderTexts : EmbedderReads[k] = Text
      /\ EmbedderReads["embedder_dims"] = Positive
  BY DEF EmbedderReads, EmbedderTexts, All, @@, :>
<1>4. /\ Settings(s) = EmbedderTexts \cup {"embedder_dims"}
      /\ \A k \in EmbedderTexts : Kind(s, k) = Text
      /\ Kind(s, "embedder_dims") = AtLeast(1)
  BY <1>1, <1>3 DEF RowIs, Positive
<1>5. Default(s, "embedder_dims") = 0
  BY <1>1, <1>3, DefaultOf, Zeros DEF Zeroed
<1>6. ASSUME NEW k \in EmbedderTexts
      PROVE  Default(s, k) = Empty
  BY <1>1, <1>3, DefaultOf, ZeroTexts DEF Zeroed
<1>7. ASSUME NEW c
      PROVE  Written(s, c) = Apart(s, c, EmbedderTexts) \cup Above0(c, {"embedder_dims"})
  <2>1. NonEmpty(c, EmbedderTexts) = Apart(s, c, EmbedderTexts)
    BY <1>6, NonEmptyIsApart
  <2> QED BY <1>2, <2>1 DEF EmbedderWritten, DimsSetters
<1>8. ASSUME NEW c, IsSettings(s, c), NEW k \in Settings(s) \ Written(s, c)
      PROVE  c[k] = Default(s, k) \/ ~Legal(s, k, c[k])
  <2>1. CASE k \in EmbedderTexts
    BY <1>7, <1>8, <2>1 DEF Apart
  <2>2. CASE k = "embedder_dims"
    <3>1. c[k] \in Int /\ c[k] < 1
      BY <1>3, <1>4, <1>7, <1>8, <2>2 DEF Above0, IsSettings, IsNumber, AtLeast
    <3> QED BY <1>4, <2>2, <3>1, LowIsRefused
  <2> QED BY <1>4, <2>1, <2>2
<1>9. \A k \in Settings(s) : Sturdy(Kind(s, k), Default(s, k))
  BY <1>4 DEF Sturdy, Text, AtLeast
<1>10. \A c : Written(s, c) \subseteq Settings(s)
  BY <1>4, <1>7 DEF Apart, Above0
<1> QED BY <1>2, <1>8, <1>9, <1>10, WholesAreTidy DEF Kept

LEMMA Backends ==
    ASSUME NEW s \in Sections, OfFlat(s), s = "backends"
    PROVE  Tidy(s) /\ Lossy(s)
<1>1. RowIs(s, BackendReads, BackendDefaults)
  BY OfRow DEF OfFlat, FlatTable, FlatNames
<1>2. \A c : Written(s, c) = BackendWritten(c) /\ Lost(s, c) = {}
  BY DEF OfFlat, FlatWritten, FlatLost
<1>3. /\ DOMAIN BackendReads = BackendSetters \cup {"db2_pool_size"}
      /\ "db2_pool_size" \notin BackendSetters
      /\ \A k \in BackendSetters : BackendReads[k] \in {Text, AnyText}
      /\ BackendReads["db2_pool_size"] = Within(1, 256)
      /\ DOMAIN BackendDefaults = {"db2_pool_size"} /\ BackendDefaults["db2_pool_size"] = 8
  BY DEF BackendReads, BackendSetters, BackendDefaults, All, @@, :>
<1>4. /\ Settings(s) = BackendSetters \cup {"db2_pool_size"}
      /\ \A k \in BackendSetters : Kind(s, k) \in {Text, AnyText}
      /\ Kind(s, "db2_pool_size") = Within(1, 256)
  BY <1>1, <1>3 DEF RowIs
<1>5. Default(s, "db2_pool_size") = 8
  BY <1>1, <1>3, DefaultOf
<1>6. ASSUME NEW k \in BackendSetters
      PROVE  Default(s, k) = Empty
  BY <1>1, <1>3, <1>6, DefaultOf, ZeroTexts
<1>7. ASSUME NEW c
      PROVE  Written(s, c) = Apart(s, c, BackendSetters)
               \cup When(c.db2_pool_size > 0 /\ c.db2_pool_size # 8, {"db2_pool_size"})
  <2>1. NonEmpty(c, BackendSetters) = Apart(s, c, BackendSetters)
    BY <1>6, NonEmptyIsApart
  <2> QED BY <1>2, <2>1 DEF BackendWritten, PoolSetters
<1>8. ASSUME NEW c, IsSettings(s, c), NEW k \in Settings(s) \ Written(s, c)
      PROVE  c[k] = Default(s, k) \/ ~Legal(s, k, c[k])
  <2>1. CASE k \in BackendSetters
    BY <1>7, <1>8, <2>1 DEF Apart
  <2>2. CASE k = "db2_pool_size"
    <3>1. c[k] \in Int /\ (c[k] = 8 \/ c[k] < 1)
      BY <1>3, <1>4, <1>7, <1>8, <2>2 DEF When, IsSettings, IsNumber, Within
    <3> QED BY <1>4, <1>5, <2>2, <3>1, LowIsRefused
  <2> QED BY <1>4, <2>1, <2>2
<1>9. \A k \in Settings(s) : Sturdy(Kind(s, k), Default(s, k))
  BY <1>4 DEF Sturdy, Text, AnyText, Within
<1>10. \A c : Written(s, c) \subseteq Settings(s)
  BY <1>4, <1>7 DEF Apart, When
<1> QED BY <1>2, <1>8, <1>9, <1>10, WholesAreTidy DEF Kept

LEMMA Unreads ==
    ASSUME NEW s \in Sections, OfFlat(s), s = "unread", Plain(s)
    PROVE  Tidy(s) /\ Lossy(s)
<1>1. RowIs(s, UnreadReads, UnreadDefaults)
  BY OfRow DEF OfFlat, FlatTable, FlatNames
<1>2. \A c : Written(s, c) = {} /\ Lost(s, c) = UnreadLost(c)
  BY DEF OfFlat, FlatWritten, FlatLost
<1>3. DOMAIN UnreadReads = DOMAIN UnreadDefaults
  BY DEF UnreadReads, UnreadDefaults, UnreadSettings, All, @@
<1>4. ASSUME NEW c
      PROVE  Lost(s, c) = Apart(s, c, Settings(s))
  BY <1>1, <1>2, <1>3, DifferingIsApart DEF RowIs, UnreadLost
<1> QED BY <1>2, <1>4, UnsavedIsLossy

LEMMA Models ==
    ASSUME NEW s \in Sections, OfFlat(s), s = "models"
    PROVE  Tidy(s) /\ Lossy(s)
<1> DEFINE always == {"provider", "guardrail_mode"}
<1>1. RowIs(s, ModelReads, ModelDefaults)
  BY OfRow DEF OfFlat, FlatTable, FlatNames
<1>2. \A c : Written(s, c) = ModelWritten(c) /\ Lost(s, c) = {}
  BY DEF OfFlat, FlatWritten, FlatLost
<1>3. /\ DOMAIN ModelReads = always \cup ModelTexts \cup {"default_persona"}
      /\ \A k \in DOMAIN ModelReads : ModelReads[k] = Text
      /\ "default_persona" \in DOMAIN ModelDefaults
      /\ ModelDefaults["default_persona"] = "engineer"
  BY DEF ModelReads, ModelDefaults, ModelTexts, All
<1>4. /\ Settings(s) = always \cup ModelTexts \cup {"default_persona"}
      /\ \A k \in Settings(s) : Kind(s, k) = Text
  BY <1>1, <1>3 DEF RowIs
<1>5. Default(s, "default_persona") = "engineer"
  BY <1>1, <1>3, DefaultOf
<1> HIDE DEF always
<1>6. ASSUME NEW c
      PROVE  /\ Written(s, c) \subseteq Settings(s)
             /\ \A k \in Settings(s) \ Written(s, c) : c[k] \in {Empty, Default(s, k)}
  <2>1. NonEmpty(c, ModelTexts) = {k \in ModelTexts : c[k] # Empty}
    BY Zenon DEF NonEmpty, Empty
  <2>2. Written(s, c) = always \cup NonEmpty(c, ModelTexts)
                          \cup When(c.default_persona \notin {Empty, "engineer"}, {"default_persona"})
    BY Zenon, <1>2 DEF ModelWritten, Empty, always
  <2> QED BY <1>4, <1>5, <2>1, <2>2 DEF When
<1>7. ASSUME NEW k \in Settings(s)
      PROVE  /\ Empty = Default(s, k) \/ ~Legal(s, k, Empty)
             /\ Sturdy(Kind(s, k), Default(s, k))
  <2>1. Kind(s, k)[1] = "text"
    BY <1>4 DEF Text
  <2> QED BY <2>1, EmptyIsRefused DEF Sturdy
<1> QED BY <1>2, <1>6, <1>7, WholesAreTidy DEF Kept

LEMMA Preinject ==
    ASSUME NEW s \in Sections, OfFlat(s), s = "preinject", Plain(s)
    PROVE  Tidy(s) /\ Lossy(s)
<1> DEFINE ons == IngressGates \cup {"synthesis_thinking"}
           anthropic == "ingress_preinject_anthropic_enabled"
           sizes == IngressSizes \cup {"code_context_mode"}
<1>1. RowIs(s, PreinjectReads, PreinjectDefaults)
      /\ Table[s].defaults = Filled(PreinjectReads, PreinjectDefaults)
  BY OfRow DEF OfFlat, FlatTable, FlatNames, Row
<1>2. \A c : Written(s, c) = PreinjectWritten(c) /\ Lost(s, c) = PreinjectLost(c)
  BY DEF OfFlat, FlatWritten, FlatLost
<1>3. DOMAIN PreinjectReads = ons \cup {anthropic} \cup sizes
  BY DEF PreinjectReads, IngressGates, IngressSizes, All, @@, :>
<1>4. \A k \in ons \cup {anthropic} : PreinjectReads[k] = Flag
  BY DEF PreinjectReads, IngressGates, All, @@
<1>5. \A k \in IngressSizes : PreinjectReads[k] \in {NonNegative, Positive}
  BY DEF PreinjectReads, IngressGates, IngressSizes, All, @@
<1>6. PreinjectReads["code_context_mode"] = Text
  BY DEF PreinjectReads, IngressGates, IngressSizes, All, @@, :>
<1>7. /\ \A k \in ons : k \in DOMAIN PreinjectDefaults /\ PreinjectDefaults[k] = 1
      /\ anthropic \notin DOMAIN PreinjectDefaults
  BY DEF PreinjectDefaults, IngressSizeDefaults, IngressGates, All, @@, :>
<1>8. /\ anthropic \notin ons \cup sizes /\ ons \cap sizes = {}
      /\ "synthesis_thinking" \notin IngressGates
  BY DEF IngressGates, IngressSizes
<1>9. Settings(s) = ons \cup {anthropic} \cup sizes
  BY <1>1, <1>3 DEF RowIs
<1> HIDE DEF anthropic
<1>10. ASSUME NEW k \in ons
       PROVE  Kind(s, k) = Flag /\ Default(s, k) = 1
  BY <1>1, <1>3, <1>4, <1>7, <1>10, DefaultOf
<1>11. Kind(s, anthropic) = Flag /\ Default(s, anthropic) = 0
  BY <1>1, <1>3, <1>4, <1>7, DefaultOf, Zeros
<1>12. ASSUME NEW c
       PROVE  Written(s, c) = On(c, IngressGates \cup {anthropic}) \cup Apart(s, c, sizes)
  <2>1. \A k \in sizes : Filled(PreinjectReads, PreinjectDefaults)[k] = Default(s, k)
    BY <1>1 DEF Default
  <2> QED BY <1>2, <2>1 DEF PreinjectWritten, Apart, CodeContextSetters, anthropic
<1>13. ASSUME NEW c
       PROVE  Lost(s, c) = {k \in ons : c[k] = 0}
  BY <1>2 DEF PreinjectLost, ThinkingSetters
<1> HIDE DEF sizes
<1>14. Tidy(s)
  <2>1. ASSUME NEW c, NEW k \in Settings(s) \ Written(s, c)
        PROVE  c[k] = Default(s, k) \/ k \in Lost(s, c) \/ Kept(s, k, c[k]) = Default(s, k)
    <3>1. CASE k \in ons
      BY <1>10, <1>13, <3>1, FlagIsKept
    <3>2. CASE k = anthropic
      BY <1>11, <1>12, <2>1, <3>2 DEF On
    <3>3. CASE k \in sizes
      BY <1>12, <2>1, <3>3 DEF Apart
    <3> QED BY <1>9, <3>1, <3>2, <3>3
  <2>2. ASSUME NEW k \in Settings(s)
        PROVE  \/ Sturdy(Kind(s, k), Default(s, k))
               \/ \A c : k \in Written(s, c) => c[k] # Default(s, k)
    <3>1. CASE k \in ons \cup {anthropic}
      BY <1>10, <1>11, <3>1 DEF Sturdy, Flag
    <3>2. CASE k \in sizes
      BY <1>8, <1>12, <3>2 DEF Apart, On
    <3> QED BY <1>9, <3>1, <3>2
  <2>3. \A c : Written(s, c) \subseteq Settings(s)
    BY <1>9, <1>12 DEF Apart, On
  <2> QED BY <2>1, <2>2, <2>3, TidyByParts
<1>15. ASSUME NEW c
       PROVE  /\ Lost(s, c) \subseteq Settings(s) \ Written(s, c)
              /\ \A k \in Lost(s, c) : c[k] # Default(s, k)
  BY <1>8, <1>9, <1>10, <1>12, <1>13 DEF On, Apart
<1>16. ASSUME NEW doc, NEW k \in ons
       PROVE  Load(s, Reread(s, doc))[k] # 0
  <2> DEFINE c == Load(s, doc)
  <2>1. k \in Settings(s)
    BY <1>9
  <2>2. CASE k \in Written(s, c)
    <3>1. c[k] # 0
      BY <1>8, <1>12, <2>2 DEF On, Apart
    <3> QED BY <1>10, <2>1, <2>2, <3>1, FlagIsReread DEF Reread
  <2>3. CASE k \notin Written(s, c)
    BY <1>10, <2>1, <2>3, OmittedIsDefault DEF Reread
  <2> QED BY <2>2, <2>3
<1>17. \A doc : Lost(s, Load(s, Reread(s, doc))) = {}
  BY <1>13, <1>16
<1> QED BY <1>14, <1>15, <1>17 DEF Lossy

\* A tier in the document decides the gates: they are lost to it, and are forced.
LEMMA Pdf ==
    ASSUME NEW s \in Sections, OfFlat(s), s = "kb_pdf"
    PROVE  Sound(s)
<1> DEFINE tier == "kb_pdf_tier"
           sizes == DOMAIN PdfSizeDefaults
<1>1. RowIs(s, PdfReads, PdfDefaults)
  BY OfRow DEF OfFlat, FlatTable, FlatNames
<1>2. \A c : Written(s, c) = PdfWritten(c) /\ Lost(s, c) = PdfLost(c)
  BY DEF OfFlat, FlatWritten, FlatLost
<1>3. /\ DOMAIN PdfReads = PdfGates \cup PdfTexts \cup {tier} \cup sizes
      /\ sizes = {"kb_pdf_blob_recon_secs", "kb_pdf_blob_orphan_alarm_mb"}
      /\ tier \notin PdfGates \cup PdfTexts \cup sizes
      /\ PdfGates \cap (PdfTexts \cup sizes) = {} /\ PdfTexts \cap sizes = {}
  BY DEF PdfReads, PdfGates, PdfTexts, PdfSizeDefaults, All, @@
<1>4. \A k \in PdfGates : PdfReads[k] = Flag
  BY DEF PdfReads, PdfGates, All, @@
<1>5. \A k \in PdfTexts \cup {tier} : PdfReads[k] = Text
  BY DEF PdfReads, PdfGates, PdfTexts, All, @@
<1>6. \A k \in sizes : PdfReads[k] = Number
  BY DEF PdfReads, PdfGates, PdfTexts, PdfSizeDefaults, All, @@
<1>7. /\ DOMAIN PdfDefaults = sizes \cup {tier}
      /\ PdfDefaults[tier] = "off"
      /\ \A k \in sizes : PdfDefaults[k] = PdfSizeDefaults[k]
  BY DEF PdfDefaults, PdfSizeDefaults, @@, :>
<1>8. Settings(s) = PdfGates \cup PdfTexts \cup {tier} \cup sizes
  BY <1>1, <1>3 DEF RowIs
<1> HIDE DEF tier, sizes
<1>9. ASSUME NEW k \in PdfGates
      PROVE  Kind(s, k) = Flag /\ Default(s, k) = 0
  BY <1>1, <1>3, <1>4, <1>7, <1>9, DefaultOf, Zeros
<1>10. ASSUME NEW k \in PdfTexts
       PROVE  Kind(s, k) = Text /\ Default(s, k) = Empty
  BY <1>1, <1>3, <1>5, <1>7, <1>10, DefaultOf, ZeroTexts
<1>11. Kind(s, tier) = Text /\ Default(s, tier) = "off"
  BY <1>1, <1>3, <1>5, <1>7, DefaultOf
<1>12. ASSUME NEW k \in sizes
       PROVE  Kind(s, k) = Number /\ Default(s, k) = PdfSizeDefaults[k]
  BY <1>1, <1>3, <1>6, <1>7, <1>12, DefaultOf
<1> DEFINE decides(c) == c[tier] \notin {Empty, "off"}
           rest == PdfGates \cup PdfTexts \cup sizes
<1>13. ASSUME NEW c
       PROVE  Written(s, c) = When(decides(c), {tier}) \cup Apart(s, c, rest)
  <2>1. On(c, PdfGates) = Apart(s, c, PdfGates)
    BY <1>9, OnIsApart
  <2>2. NonEmpty(c, PdfTexts) = Apart(s, c, PdfTexts)
    BY <1>10, NonEmptyIsApart
  <2>3. Differing(c, PdfSizeDefaults) = Apart(s, c, sizes)
    BY <1>12, DifferingIsApart DEF sizes
  <2>4. Apart(s, c, rest) = Apart(s, c, PdfGates) \cup Apart(s, c, PdfTexts) \cup Apart(s, c, sizes)
    BY DEF Apart
  <2>5. Written(s, c) = When(decides(c), {tier}) \cup On(c, PdfGates) \cup NonEmpty(c, PdfTexts)
                          \cup Differing(c, PdfSizeDefaults)
    BY Zenon, <1>2 DEF PdfWritten, Empty, tier
  <2> HIDE DEF decides, rest
  <2> QED BY <2>1, <2>2, <2>3, <2>4, <2>5
<1>14. ASSUME NEW c
       PROVE  /\ Lost(s, c) \subseteq PdfGates
              /\ Lost(s, c) # {} => decides(c)
  <2>1. Lost(s, c) = When(decides(c), Differing(c, kb_pdf_apply_tier(c[tier])))
    BY Zenon, <1>2 DEF PdfLost, Empty, tier
  <2> HIDE DEF decides
  <2> QED BY <2>1 DEF When, Differing, kb_pdf_apply_tier
<1>15. ASSUME NEW doc
       PROVE  /\ Start(s, doc) = Table[s].defaults /\ Loads(s, doc)
              /\ Forced(s, doc) = IF tier \in DOMAIN doc /\ doc[tier] \notin {Wrong, Empty}
                                  THEN kb_pdf_apply_tier(doc[tier]) ELSE Zeroed
  BY Zenon DEF OfFlat, PdfForced, Empty, tier
<1> HIDE DEF rest
<1>16. ASSUME NEW doc
       PROVE  /\ DOMAIN Forced(s, doc) \subseteq PdfGates
              /\ \A k \in DOMAIN Forced(s, doc) : Forced(s, doc)[k] \in {0, 1}
  BY <1>15 DEF kb_pdf_apply_tier, Zeroed
<1>17. StartsLoadable(s)
  <2>1. ASSUME NEW k \in PdfGates, NEW v \in {0, 1}
        PROVE  Loadable(s, k, v)
    <3>1. v # Wrong /\ v \in Int
      BY WrongAssumption
    <3>2. Kind(s, k) = Flag
      BY <1>9
    <3>3. Rendered(Flag, v) = v /\ Assigned(Flag, v) = v /\ Accepts(Flag, v)
      BY <3>1 DEF Accepts, Assigned, Rendered, Flag
    <3>4. Bounded(Flag, v)
      BY DEF Bounded, Flag
    <3> QED BY <3>1, <3>2, <3>3, <3>4 DEF Loadable, Stable, InBounds, Takes
  <2>2. \A doc : \A k \in Settings(s) : Start(s, doc)[k] = Default(s, k)
    BY <1>15 DEF Default
  <2> QED BY <1>16, <2>1, <2>2, DefaultIsLoadable DEF StartsLoadable
<1>18. Tidy(s)
  <2>1. ASSUME NEW c, NEW k \in Settings(s) \ Written(s, c)
        PROVE  c[k] = Default(s, k) \/ ~Legal(s, k, c[k])
    <3>1. CASE k = tier
      <4>1. c[k] \in {Empty, Default(s, k)}
        BY <1>11, <1>13, <2>1, <3>1 DEF When
      <4>2. Kind(s, k)[1] = "text"
        BY <1>11, <3>1 DEF Text
      <4> QED BY <4>1, <4>2, EmptyIsRefused
    <3>2. CASE k \in rest
      BY <1>13, <2>1, <3>2 DEF Apart
    <3> QED BY <1>8, <3>1, <3>2 DEF rest
  <2>2. ASSUME NEW k \in Settings(s)
        PROVE  Sturdy(Kind(s, k), Default(s, k))
    <3>1. CASE k \in PdfGates
      BY <1>9, <3>1 DEF Sturdy, Flag
    <3>2. CASE k \in PdfTexts \cup {tier}
      BY <1>10, <1>11, <3>2 DEF Sturdy, Text
    <3>3. CASE k \in sizes
      BY <1>12, <3>3 DEF Sturdy, Number
    <3> QED BY <1>8, <3>1, <3>2, <3>3
  <2>3. \A c : Written(s, c) \subseteq Settings(s)
    BY <1>8, <1>13 DEF Apart, When, rest
  <2> QED BY <2>1, <2>2, <2>3, TidyByParts
\* A saved tier is read again, and decides the gates.
<1>19. ASSUME NEW c, IsSettings(s, c), decides(c)
       PROVE  Forced(s, Save(s, c)) = kb_pdf_apply_tier(c[tier])
  <2>1. tier \in DOMAIN Save(s, c) /\ Save(s, c)[tier] = c[tier]
    BY <1>11, <1>13, <1>19 DEF Save, When, Rendered, Text
  <2>2. c[tier] # Wrong /\ c[tier] # Empty
    BY <1>8, <1>19 DEF IsSettings
  <2> QED BY <1>15, <2>1, <2>2
<1>20. ASSUME NEW c, IsSettings(s, c), ~decides(c)
       PROVE  DOMAIN Forced(s, Save(s, c)) = {}
  <2>1. tier \notin Written(s, c)
    BY <1>3, <1>13, <1>20 DEF When, Apart, rest
  <2>2. tier \notin DOMAIN Save(s, c)
    BY <2>1 DEF Save
  <2> QED BY <1>15, <2>2 DEF Zeroed
<1>21. ASSUME NEW c, IsSettings(s, c)
       PROVE  Lost(s, c) \subseteq DOMAIN Forced(s, Save(s, c))
  <2>1. CASE decides(c)
    BY <1>14, <1>19, <1>21, <2>1 DEF kb_pdf_apply_tier
  <2>2. CASE ~decides(c)
    BY <1>14, <2>2
  <2> QED BY <2>1, <2>2
<1>22. ASSUME NEW doc, IsDocument(s, doc)
       PROVE  IsSettings(s, Load(s, doc)) /\ IsDocument(s, Reread(s, doc))
  BY <1>17, <1>18, <1>22, LoadIsSettings, SaveIsDocument DEF Tidy, WritesItsOwn, Reread
<1>23. LosesTheOmitted(s)
  BY <1>8, <1>14, <1>21 DEF LosesTheOmitted
<1>24. LosesForGood(s)
  BY <1>21, <1>22 DEF LosesForGood, Reread
<1>25. ForcesTheSame(s)
  <2> SUFFICES ASSUME NEW doc, IsDocument(s, doc),
                      NEW k \in Settings(s) \cap DOMAIN Forced(s, Reread(s, doc))
               PROVE  Forced(s, Reread(s, doc))[k] = Load(s, doc)[k]
    BY DEF ForcesTheSame
  <2> DEFINE c == Load(s, doc)
  <2>1. IsSettings(s, c)
    BY <1>22
  <2>2. decides(c)
    BY <1>20, <2>1 DEF Reread
  <2>3. Forced(s, Reread(s, doc)) = kb_pdf_apply_tier(c[tier]) /\ k \in PdfGates
    BY <1>16, <1>19, <2>1, <2>2 DEF Reread
  <2>4. tier \in Settings(s) /\ tier \notin DOMAIN Forced(s, doc) /\ Start(s, doc)[tier] = "off"
    BY <1>3, <1>8, <1>11, <1>15, <1>16 DEF Default
  <2>5. tier \in DOMAIN doc /\ Accepts(Kind(s, tier), doc[tier])
    BY <2>2, <2>4 DEF Load, Parsed, Settings, Kind
  <2>6. c[tier] = doc[tier]
    BY <1>11, <2>4, <2>5 DEF Load, Parsed, Settings, Kind, Assigned, Text
  <2>7. Forced(s, doc) = kb_pdf_apply_tier(c[tier])
    BY <1>8, <1>15, <2>1, <2>2, <2>5, <2>6 DEF IsSettings
  <2>8. k \in DOMAIN Forced(s, doc)
    BY <2>3, <2>7 DEF kb_pdf_apply_tier
  <2> QED BY <2>3, <2>7, <2>8 DEF Load, Parsed, Settings, Kind
<1>26. LosesOnce(s)
  BY <1>15, <1>21, <1>22 DEF LosesOnce, Reread
<1>27. Faithful(s)
  BY <1>15, <1>17, <1>18, TidyIsFaithful
<1> QED BY <1>23, <1>24, <1>25, <1>26, <1>27 DEF Sound, LossesListed

LEMMA FlatIsSound ==
    ASSUME NEW s \in Sections, OfFlat(s)
    PROVE  Sound(s)
<1>1. DOMAIN FlatTable = {"opt-in", "opt-out", "switches", "preinject", "models", "embedder",
        "backends", "kb_pdf", "delegate_sandbox", "css_render_command", "vault", "unread"}
  BY DEF FlatTable, FlatNames
<1>2. s \in DOMAIN FlatTable
  BY DEF OfFlat
<1>3. ASSUME s # "kb_pdf"
      PROVE  Sound(s)
  <2>1. Plain(s) /\ Reloads(s)
    BY <1>3 DEF OfFlat, Plain, Reloads
  <2>2. Tidy(s) /\ Lossy(s)
    BY <1>1, <1>2, <1>3, <2>1, OptIn, OptOut, Switches, Preinject, Models, Embedder, Backends,
       Delegate, Render, Vault, Unreads
  <2> QED BY <2>1, <2>2, PlainIsSound
<1> QED BY <1>3, Pdf

-----------------------------------------------------------------------------
(* What holds of these sections.                                           *)

\* A configuration of sections of the two tables.
Known == \A s \in Sections : OfRuntime(s) \/ OfFlat(s)

LEMMA KnownIsSound ==
    ASSUME Known
    PROVE  \A s \in Sections : Sound(s)
BY RuntimeIsSound, FlatIsSound DEF Known

\* Of the settings of RuntimeSections and FlatSections, over any setters and edits,
\* every one that the operator set and that is not a listed loss is loaded again.
THEOREM TablesSurvive ==
    ASSUME Known
    PROVE  Spec => []Survives
BY KnownIsSound, NothingIsLost DEF Sound

\* None of those settings is loaded out of its bounds.
THEOREM TablesInRange ==
    ASSUME Known
    PROVE  Spec => []InRange
BY KnownIsSound, LoadedInRange DEF Sound, Faithful

\* Their losses are RuntimeLost and FlatLost: each is real, and there is no other.
THEOREM TablesLosses ==
    ASSUME Known
    PROVE  Spec => []LossesKnown
BY KnownIsSound, LossesAreKnown DEF Sound

\* They are lost at the first save.
THEOREM TablesSettle ==
    ASSUME Known
    PROVE  Spec => []Settles
BY KnownIsSound, SavesSettle DEF Sound

\* A step gives one of those settings at most a value of its own.
THEOREM TablesMoveOne ==
    ASSUME Known
    PROVE  Spec => SetsOne
BY KnownIsSound, OneSettingMoves DEF Sound, Faithful
==============================================================================
