------------------------ MODULE ServerStartupProofs -------------------------
(***************************************************************************)
(* bootstrap, MailService and the environment, for every deployment: the   *)
(* types, the reasons of a refused startup and of a refused mail, and what *)
(* the services that read process.env for themselves have understood.      *)
(*                                                                         *)
(* The run sets one variable at a time, or those of moderation; here       *)
(* Deployments is any set, so any combination of texts.  What a reader     *)
(* makes of a text is a case analysis of the texts of its variable; what   *)
(* relates it to the setting is that both are of the same deployment.      *)
(***************************************************************************)
EXTENDS ServerStartup, TLAPS

-----------------------------------------------------------------------------
(* Mail                                                                    *)

\* provider() returns one of three.
LEMMA ProviderCases ==
  ASSUME NEW c \in Configurations
  PROVE  Provider(c) \in {"resend", "smtp", "null"}
BY DEF Configurations, Provider

\* The two case analyses agree.
LEMMA Explained ==
  ASSUME NEW c \in Configurations
  PROVE  IsMailConfigured(c) <=> MissingConfigKeys(c) = {}
<1>1. CASE Has(c, "manual")
  BY <1>1 DEF IsMailConfigured, MissingConfigKeys
<1>2. CASE ~Has(c, "manual") /\ ~Has(c, "fromAddress")
  <2>1. "MAIL_FROM" \in MissingConfigKeys(c)
    BY <1>2 DEF MissingConfigKeys
  <2>2. QED
    BY <1>2, <2>1 DEF IsMailConfigured
<1>3. CASE ~Has(c, "manual") /\ Has(c, "fromAddress") /\ Provider(c) = "null"
  <2>1. "SMTP_HOST" \in MissingConfigKeys(c)
        \/ "RESEND_API_KEY" \in MissingConfigKeys(c)
    BY <1>3 DEF MissingConfigKeys
  <2>2. QED
    BY <1>3, <2>1 DEF IsMailConfigured
<1>4. CASE ~Has(c, "manual") /\ Has(c, "fromAddress") /\ Provider(c) = "resend"
  BY <1>4 DEF MissingConfigKeys, IsMailConfigured
<1>5. CASE ~Has(c, "manual") /\ Has(c, "fromAddress") /\ Provider(c) = "smtp"
  <2>1. CASE HalfAuth(c)
    <3>1. "SMTP_USER" \in MissingConfigKeys(c)
          \/ "SMTP_PASS" \in MissingConfigKeys(c)
      BY <1>5, <2>1 DEF MissingConfigKeys, HalfAuth, Has
    <3>2. QED
      BY <1>5, <2>1, <3>1 DEF IsMailConfigured
  <2>2. CASE ~HalfAuth(c)
    BY <1>5, <2>2 DEF MissingConfigKeys, IsMailConfigured
  <2>3. QED
    BY <2>1, <2>2
<1>6. QED
  BY <1>1, <1>2, <1>3, <1>4, <1>5, ProviderCases

-----------------------------------------------------------------------------
(* Texts                                                                   *)

\* A variable's setting is what the validation makes of the shell's text, or of
\* the file's when the shell has none.
LEMMA TextOf ==
  ASSUME NEW d \in Deployments, NEW v \in Variables, NEW s, s = d.shell[v]
  PROVE  /\ s \in Texts(v) /\ Merged(d)[v] \in Texts(v)
         /\ s # Unset => Merged(d)[v] = s
         /\ Validated(d)[v] = Parse(v, Merged(d)[v])
         /\ Assigned(d)[v] = IF s = Unset THEN Validated(d)[v] ELSE s
<1>1. {d.shell[v], d.file[v]} \subseteq Texts(v)
  BY DeploymentsAssumption
<1>2. Merged(d)[v] = IF s = Unset THEN d.file[v] ELSE s
  BY DEF Merged
<1>3. Validated(d)[v] = Parse(v, Merged(d)[v])
  BY DEF Validated, ValidateEnvironment
<1>4. Assigned(d)[v] = IF s = Unset THEN Validated(d)[v] ELSE s
  BY DEF Assigned
<1>5. QED
  BY <1>1, <1>2, <1>3, <1>4

\* The variables that are of a kind of their own.
Singles == {"NODE_ENV", "JWT_SECRET", "JWT_EXPIRES_IN", "OPENROUTER_API_KEY",
            "AI_MODERATION_MODEL", "AI_AUTO_APPROVE_CONFIDENCE_MIN",
            "AI_MODERATION_PROVIDER_SORT", "TRUST_PROXY", "DATABASE_URL"}

\* The kinds of variables exclude each other.
LEMMA Kinds ==
  ASSUME NEW v
  PROVE  /\ v \in Variables
              <=> v \in Booleans \/ v \in PositiveIntegers \/ v \in Singles
         /\ v \in Singles => v \notin Booleans /\ v \notin PositiveIntegers
         /\ v \in Booleans => v \notin PositiveIntegers
         /\ v \in Booleans <=> v \in Features \/ v = "AI_MODERATION_ENABLED"
         /\ v = "AI_MODERATION_ENABLED" => v \notin Features
<1>1. v \in Variables
        <=> v \in Booleans \/ v \in PositiveIntegers \/ v \in Singles
  BY DEF Variables, Singles
<1>2. v \in Singles => v \notin Booleans /\ v \notin PositiveIntegers
  BY DEF Singles, Booleans, Features, PositiveIntegers
<1>3. v \in Booleans => v \notin PositiveIntegers
  BY DEF Booleans, Features, PositiveIntegers
<1>4. v \in Booleans <=> v \in Features \/ v = "AI_MODERATION_ENABLED"
  BY DEF Booleans
<1>5. v = "AI_MODERATION_ENABLED" => v \notin Features
  BY DEF Features
<1>6. QED
  BY <1>1, <1>2, <1>3, <1>4, <1>5

\* AI_MODERATION_ENABLED: only "true" is on for both readers.
LEMMA EnabledTexts ==
  ASSUME NEW v, v = "AI_MODERATION_ENABLED", NEW t \in Texts(v),
         Parse(v, t) # Throws
  PROVE  /\ v \in Variables /\ Parse(v, t) \in {"true", "false"}
         /\ t = "true" => Parse(v, t) = "true"
         /\ t # Unset => (t \notin Misread(v)
                            <=> (Parse(v, t) = "true" <=> t = "true"))
         /\ Unset \notin Misread(v)
<1>1. v \in Booleans /\ v \in Variables /\ v \notin PositiveIntegers
      /\ v \notin Features
      /\ v \notin Singles
  BY Kinds
<1>2. t \in {Unset, "", "true", "TRUE", "1", "false", "FALSE", "0", "maybe"}
  BY <1>1 DEF Texts, Absent, Singles
<1>3. Parse(v, t) = IF t \in Absent THEN "false" ELSE ParseBoolean(t)
  BY <1>1 DEF Parse, ParsePresent, ParseAbsent, Default, Singles
<1>4. Misread(v) = {"TRUE", "1"}
  BY <1>1 DEF Misread, Singles
<1>5. QED
  BY <1>1, <1>2, <1>3, <1>4
     DEF ParseBoolean, Lowered, TrueWords, FalseWords, Absent, Unset, Throws

\* The optional features: only "false" is off for the services.
LEMMA FeatureTexts ==
  ASSUME NEW v \in Features, NEW t \in Texts(v), Parse(v, t) # Throws
  PROVE  /\ v \in Variables /\ Parse(v, t) \in {"true", "false"}
         /\ t # Unset => (t \notin Misread(v)
                            <=> (Parse(v, t) = "true" <=> t # "false"))
         /\ Unset \notin Misread(v)
<1>1. v \in Booleans /\ v \in Variables /\ v \notin PositiveIntegers
      /\ v # "AI_MODERATION_ENABLED" /\ v \notin Singles
  BY Kinds
<1>2. t \in {Unset, "", "true", "TRUE", "1", "false", "FALSE", "0", "maybe"}
  BY <1>1 DEF Texts, Absent, Singles
<1>3. Parse(v, t) = IF t \in Absent THEN "true" ELSE ParseBoolean(t)
  <2>1. Default(v) = "true"
    BY <1>1 DEF Default, Features, Singles
  <2>2. ParsePresent(v, t) = ParseBoolean(t)
    BY <1>1 DEF ParsePresent, Singles
  <2>3. QED
    BY <1>1, <2>1, <2>2 DEF Parse, ParseAbsent, Singles
<1>4. Misread(v) = {"FALSE", "0"}
  BY <1>1 DEF Misread, Singles
<1>5. QED
  BY <1>1, <1>2, <1>3, <1>4
     DEF ParseBoolean, Lowered, TrueWords, FalseWords, Absent, Unset, Throws

\* Positive integers: a blank one has a default for the validation only.
LEMMA IntegerTexts ==
  ASSUME NEW v \in PositiveIntegers, NEW t \in Texts(v), Parse(v, t) # Throws
  PROVE  /\ v \in Variables /\ Parse(v, t) \notin {Unset, "NaN"}
         /\ v # "OTP_EXPIRES_MINUTES" => ParseInt(Parse(v, t)) = Parse(v, t)
         /\ t # Unset => (t \notin Misread(v) <=> Parse(v, t) = ParseInt(t))
         /\ Unset \notin Misread(v)
<1>1. v \notin Booleans /\ v \in Variables /\ v \notin Singles
      /\ v \notin Features /\ v # "AI_MODERATION_ENABLED"
  BY Kinds
<1>2. t \in {Unset, "", "3000", "20", "20s", "0", "many"}
  BY <1>1 DEF Texts, Absent, Singles
<1>3. Parse(v, t) = IF t \in Absent THEN Default(v) ELSE ParsePositiveInteger(t)
  BY <1>1 DEF Parse, ParseAbsent, ParsePresent, Singles
<1>4. Misread(v) = {""}
  BY <1>1 DEF Misread, Singles
<1>5. Default(v) \in {"3000", "5", "30000", "20000"}
      /\ (Default(v) = "5" => v = "OTP_EXPIRES_MINUTES")
  BY Kinds DEF Default, PositiveIntegers, Features
<1>6. QED
  BY <1>1, <1>2, <1>3, <1>4, <1>5
     DEF ParsePositiveInteger, ParseInt, Absent, Unset, Throws

\* The confidence: the same, and what is read is the setting or not a number.
LEMMA ConfidenceTexts ==
  ASSUME NEW v, v = "AI_AUTO_APPROVE_CONFIDENCE_MIN", NEW t \in Texts(v),
         Parse(v, t) # Throws
  PROVE  /\ v \in Variables /\ Parse(v, t) \notin {Unset, "NaN"}
         /\ ParseFloat(Parse(v, t)) = Parse(v, t)
         /\ t # Unset => /\ t \notin Misread(v) <=> Parse(v, t) = ParseFloat(t)
                         /\ ParseFloat(t) \in {Parse(v, t), "NaN"}
         /\ Unset \notin Misread(v)
<1>1. v \notin Booleans /\ v \in Variables /\ v \in Singles
      /\ v \notin PositiveIntegers /\ v \notin Features
      /\ v # "AI_MODERATION_ENABLED"
  BY Kinds DEF Singles
<1>2. t \in {Unset, "", "0", "0.9", "0.9x", "1.5", "high"}
  BY <1>1 DEF Texts, Absent, Singles
<1>3. Parse(v, t) = IF t \in Absent THEN "0.85" ELSE ParseConfidence(t)
  BY <1>1 DEF Parse, ParseAbsent, ParsePresent, Default, Singles
<1>4. Misread(v) = {""}
  BY <1>1 DEF Misread, Singles
<1>5. QED
  BY <1>1, <1>2, <1>3, <1>4
     DEF ParseConfidence, ParseFloat, Absent, Unset, Throws

\* NODE_ENV: the validation lowers it, the worker and the CORS option do not.
LEMMA NodeEnvTexts ==
  ASSUME NEW v, v = "NODE_ENV", NEW t \in Texts(v), Parse(v, t) # Throws
  PROVE  /\ v \in Variables
         /\ Parse(v, t) \in {"development", "production", "test"}
         /\ t # Unset => (t \notin Misread(v)
                            <=> /\ t = "test" <=> (Parse(v, t) = "test")
                                /\ t = "production"
                                     <=> (Parse(v, t) = "production"))
         /\ Unset \notin Misread(v)
<1>1. v \notin Booleans /\ v \in Variables /\ v \in Singles
      /\ v \notin PositiveIntegers /\ v \notin Features
      /\ v # "AI_MODERATION_ENABLED"
  BY Kinds DEF Singles
<1>2. t \in {Unset, "", "production", "Production", "test", "Test", "staging"}
  BY <1>1 DEF Texts, Absent, Singles
<1>3. Parse(v, t) = IF t \in Absent THEN "development" ELSE ParseNodeEnv(t)
  BY <1>1 DEF Parse, ParseAbsent, ParsePresent, Default, Singles
<1>4. Misread(v) = {"Test", "Production"}
  BY <1>1 DEF Misread, Singles
<1>5. CASE t \in Absent
  BY <1>1, <1>3, <1>4, <1>5 DEF Absent, Unset
<1>6. CASE t \in {"production", "test", "staging"}
  <2>1. Lowered(t) = t
    BY <1>6 DEF Lowered
  <2>2. QED
    BY <1>1, <1>3, <1>4, <1>6, <2>1 DEF ParseNodeEnv, Absent, Unset, Throws
<1>7. CASE t = "Production"
  <2>1. Lowered(t) = "production"
    BY <1>7 DEF Lowered
  <2>2. QED
    BY <1>1, <1>3, <1>4, <1>7, <2>1 DEF ParseNodeEnv, Absent, Unset, Throws
<1>8. CASE t = "Test"
  <2>1. Lowered(t) = "test"
    BY <1>8 DEF Lowered
  <2>2. QED
    BY <1>1, <1>3, <1>4, <1>8, <2>1 DEF ParseNodeEnv, Absent, Unset, Throws
<1>9. QED
  BY <1>2, <1>5, <1>6, <1>7, <1>8 DEF Absent

\* A secret is required and kept as it is.
LEMMA SecretTexts ==
  ASSUME NEW v, v = "JWT_SECRET", NEW t \in Texts(v), Parse(v, t) # Throws
  PROVE  Parse(v, t) \notin Absent
<1>1. v \notin Booleans /\ v \in Singles /\ v \notin PositiveIntegers
  BY Kinds DEF Singles
<1>2. Parse(v, t) = IF t \in Absent THEN Throws ELSE t
  BY <1>1 DEF Parse, ParseAbsent, ParsePresent
<1>3. QED
  BY <1>2

\* Those that are read as texts, with || for a default.
Texted == {"OPENROUTER_API_KEY", "AI_MODERATION_MODEL",
           "AI_MODERATION_PROVIDER_SORT"}

\* What TextRead makes of a text.
TextOfText(v, t) ==
    IF t \in Absent THEN Default(v)
    ELSE IF v = "AI_MODERATION_PROVIDER_SORT" THEN Lowered(t) ELSE t

\* Both readers have the same default for them, and the validation's result is
\* read as itself.
LEMMA TextTexts ==
  ASSUME NEW v \in Texted, NEW t \in Texts(v), Parse(v, t) # Throws
  PROVE  /\ v \in Variables
         /\ TextOfText(v, Parse(v, t)) = Parse(v, t)
         /\ TextOfText(v, t) = Parse(v, t)
         /\ Parse(v, t) # ""
         /\ Misread(v) = {}
<1>1. v \notin Booleans /\ v \in Variables /\ v \in Singles
      /\ v \notin PositiveIntegers /\ v \notin Features
      /\ v # "AI_MODERATION_ENABLED"
      /\ v \notin {"DATABASE_URL", "JWT_SECRET", "TRUST_PROXY",
                   "JWT_EXPIRES_IN",
                   "AI_AUTO_APPROVE_CONFIDENCE_MIN", "NODE_ENV"}
  BY Kinds DEF Singles, Texted
<1>2. Misread(v) = {}
  BY <1>1 DEF Misread, Singles
<1>3. Parse(v, t) = IF t \in Absent THEN Default(v) ELSE ParsePresent(v, t)
  BY <1>1 DEF Parse, ParseAbsent, Singles
<1>4. CASE v = "AI_MODERATION_PROVIDER_SORT"
  <2>1. t \in {Unset, "", "latency", "Price", "random"}
    BY <1>1, <1>4 DEF Texts, Absent, Singles
  <2>2. Default(v) = "latency"
        /\ ParsePresent(v, t) = ParseOpenRouterProviderSort(t)
    BY <1>1, <1>4 DEF Default, ParsePresent, Singles
  <2>3. QED
    BY <1>1, <1>2, <1>3, <1>4, <2>1, <2>2
       DEF TextOfText, ParseOpenRouterProviderSort, Lowered, Absent, Unset,
           Throws
<1>5. CASE v # "AI_MODERATION_PROVIDER_SORT"
  <2>1. t \in {Unset, "", "some text"}
    BY <1>1, <1>5 DEF Texts, Absent, Singles
  <2>2. Default(v) \in {Unset, "openrouter/free"} /\ ParsePresent(v, t) = t
    BY <1>1, <1>5 DEF Default, ParsePresent, Texted, Singles
  <2>3. QED
    BY <1>1, <1>2, <1>3, <1>5, <2>1, <2>2 DEF TextOfText, Absent, Unset, Throws
<1>6. QED
  BY <1>4, <1>5

\* The cookie and the token live as long for a lifetime with a unit and without
\* a fraction of a second.
SameLife(l) ==
    CookieMs(l) = TokenMs(l)
      <=> \/ CookieMs(l) = 0
          \/ Duration(l)[2] # "" /\ CookieMs(l) % 1000 = 0

\* The parts of both computations; the provers see them as opaque.
NumberOf(l) == Duration(l)[1]
UnitOf(l) == Duration(l)[2]
CookieUnit(u) == IF u = "" THEN 1000 ELSE Milliseconds[u]
TokenUnit(u) == IF u = "" THEN 1 ELSE Milliseconds[u]
Floored(k) == 1000 * (k \div 1000)
Whole(k) == k % 1000 = 0
Second == 1000

\* Each computes its own number of milliseconds, and the token rounds it down.
LEMMA LifeOf ==
  ASSUME NEW l
  PROVE  /\ CookieMs(l) = NumberOf(l) * CookieUnit(UnitOf(l))
         /\ TokenMs(l) = Floored(NumberOf(l) * TokenUnit(UnitOf(l)))
         /\ SameLife(l)
              <=> (CookieMs(l) = TokenMs(l)
                     <=> CookieMs(l) = 0
                         \/ (UnitOf(l) # "" /\ Whole(CookieMs(l))))
<1>1. CookieMs(l) = NumberOf(l) * CookieUnit(UnitOf(l))
  BY DEF CookieMs, NumberOf, UnitOf, CookieUnit
<1>2. TokenMs(l) = Floored(NumberOf(l) * TokenUnit(UnitOf(l)))
  BY DEF TokenMs, NumberOf, UnitOf, TokenUnit, Floored
<1>3. SameLife(l)
        <=> (CookieMs(l) = TokenMs(l)
               <=> CookieMs(l) = 0 \/ (UnitOf(l) # "" /\ Whole(CookieMs(l))))
  BY DEF SameLife, UnitOf, Whole
<1>4. QED
  BY <1>1, <1>2, <1>3

\* The two agree on the units, and on nothing else.
LEMMA Units ==
  /\ CookieUnit("") = Second /\ TokenUnit("") = 1
  /\ \A u \in {"ms", "s", "m", "d"} :
       CookieUnit(u) = TokenUnit(u) /\ TokenUnit(u) \in Nat
BY SMT DEF CookieUnit, TokenUnit, Milliseconds, Second

\* Rounding leaves whole seconds alone.
LEMMA Rounded ==
  ASSUME NEW n \in Nat, NEW u \in Nat
  PROVE  n * u = Floored(n * u) <=> n * u = 0 \/ Whole(n * u)
<1>1. PICK k \in Nat : k = n * u
  OBVIOUS
<1>2. k = Floored(k) <=> k = 0 \/ Whole(k)
  BY SMT DEF Floored, Whole
<1>3. QED
  BY <1>1, <1>2, Zenon

\* Seconds are taken for milliseconds only when there are none.
LEMMA RoundedBare ==
  ASSUME NEW n \in Nat
  PROVE  n * Second = Floored(n * 1) <=> n * Second = 0
<1>1. n * 1 = n
  OBVIOUS
<1>2. n * Second = Floored(n) <=> n * Second = 0
  BY SMT DEF Floored, Second
<1>3. QED
  BY <1>1, <1>2, Zenon

\* So a lifetime with a unit,
LEMMA WithUnit ==
  ASSUME NEW l, NumberOf(l) \in Nat, UnitOf(l) \in {"ms", "s", "m", "d"}
  PROVE  SameLife(l)
<1>1. /\ CookieUnit(UnitOf(l)) = TokenUnit(UnitOf(l))
      /\ TokenUnit(UnitOf(l)) \in Nat
  BY Units, Zenon
<1>2. /\ CookieMs(l) = NumberOf(l) * TokenUnit(UnitOf(l))
      /\ TokenMs(l) = Floored(NumberOf(l) * TokenUnit(UnitOf(l)))
  BY LifeOf, <1>1, Zenon
<1>3. CookieMs(l) = TokenMs(l) <=> CookieMs(l) = 0 \/ Whole(CookieMs(l))
  BY <1>1, <1>2, Rounded, Zenon
<1>4. UnitOf(l) # ""
  OBVIOUS
<1>5. QED
  BY <1>3, <1>4, LifeOf, Zenon

\* and one without.
LEMMA WithoutUnit ==
  ASSUME NEW l, NumberOf(l) \in Nat, UnitOf(l) = ""
  PROVE  SameLife(l)
<1>1. /\ CookieMs(l) = NumberOf(l) * Second
      /\ TokenMs(l) = Floored(NumberOf(l) * 1)
  BY LifeOf, Units, Zenon
<1>2. CookieMs(l) = TokenMs(l) <=> CookieMs(l) = 0
  BY <1>1, RoundedBare, Zenon
<1>3. QED
  BY <1>2, LifeOf, Zenon

\* It is so for each of the texts that the validation accepts.
LEMMA DurationTexts ==
  ASSUME NEW v, v = "JWT_EXPIRES_IN", NEW t \in Texts(v), Parse(v, t) # Throws
  PROVE  SameLife(Parse(v, t))
<1>1. v \notin Booleans /\ v \in Variables /\ v \in Singles
      /\ v \notin PositiveIntegers /\ v \notin Features
      /\ v # "AI_MODERATION_ENABLED"
  BY Kinds DEF Singles
<1>2. t \in {Unset, "", "7d", "15M", "90s", "500ms", "2000ms", "3600", "0",
            "soon"}
  BY <1>1 DEF Texts, Absent, Singles
<1>3. Parse(v, t) = IF t \in Absent THEN "7d" ELSE ParseDuration(t)
  BY <1>1 DEF Parse, ParseAbsent, ParsePresent, Default, Singles
<1>4. Duration("soon") = NoDuration
  <2>1. Lowered("soon") = "soon"
    BY DEF Lowered
  <2>2. QED
    BY <2>1 DEF Duration
<1>5. Parse(v, t) \in {"7d", "15M", "90s", "500ms", "2000ms", "3600", "0"}
  BY <1>2, <1>3, <1>4 DEF ParseDuration, Absent
<1>6. SameLife("7d")
  <2>1. Lowered("7d") = "7d"
    BY DEF Lowered
  <2>2. NumberOf("7d") \in Nat /\ UnitOf("7d") = "d"
    BY <2>1, SMT DEF Duration, NoDuration, NumberOf, UnitOf
  <2>3. QED
    BY <2>2, WithUnit, Zenon
<1>7. SameLife("15M")
  <2>1. Lowered("15M") = "15m"
    BY DEF Lowered
  <2>2. NumberOf("15M") \in Nat /\ UnitOf("15M") = "m"
    BY <2>1, SMT DEF Duration, NoDuration, NumberOf, UnitOf
  <2>3. QED
    BY <2>2, WithUnit, Zenon
<1>8. SameLife("90s")
  <2>1. Lowered("90s") = "90s"
    BY DEF Lowered
  <2>2. NumberOf("90s") \in Nat /\ UnitOf("90s") = "s"
    BY <2>1, SMT DEF Duration, NoDuration, NumberOf, UnitOf
  <2>3. QED
    BY <2>2, WithUnit, Zenon
<1>9. SameLife("500ms")
  <2>1. Lowered("500ms") = "500ms"
    BY DEF Lowered
  <2>2. NumberOf("500ms") \in Nat /\ UnitOf("500ms") = "ms"
    BY <2>1, SMT DEF Duration, NoDuration, NumberOf, UnitOf
  <2>3. QED
    BY <2>2, WithUnit, Zenon
<1>10. SameLife("2000ms")
  <2>1. Lowered("2000ms") = "2000ms"
    BY DEF Lowered
  <2>2. NumberOf("2000ms") \in Nat /\ UnitOf("2000ms") = "ms"
    BY <2>1, SMT DEF Duration, NoDuration, NumberOf, UnitOf
  <2>3. QED
    BY <2>2, WithUnit, Zenon
<1>11. SameLife("3600")
  <2>1. Lowered("3600") = "3600"
    BY DEF Lowered
  <2>2. NumberOf("3600") \in Nat /\ UnitOf("3600") = ""
    BY <2>1, SMT DEF Duration, NoDuration, NumberOf, UnitOf
  <2>3. QED
    BY <2>2, WithoutUnit, Zenon
<1>12. SameLife("0")
  <2>1. Lowered("0") = "0"
    BY DEF Lowered
  <2>2. NumberOf("0") \in Nat /\ UnitOf("0") = ""
    BY <2>1, SMT DEF Duration, NoDuration, NumberOf, UnitOf
  <2>3. QED
    BY <2>2, WithoutUnit, Zenon
<1>13. QED
  BY <1>5, <1>6, <1>7, <1>8, <1>9, <1>10, <1>11, <1>12

\* Settings that were validated are told apart from none: they have a PORT.
LEMMA Loads ==
  ASSUME NEW d \in Deployments, Accepts(Validated(d))
  PROVE  Validated(d) # NotLoaded
<1>1. "PORT" \in PositiveIntegers /\ "PORT" \in Variables
  BY Kinds DEF PositiveIntegers
<1>2. /\ Merged(d)["PORT"] \in Texts("PORT")
      /\ Validated(d)["PORT"] = Parse("PORT", Merged(d)["PORT"])
  BY <1>1, TextOf
<1>3. Validated(d)["PORT"] # Throws
  BY <1>1 DEF Accepts
<1>4. Validated(d)["PORT"] # Unset
  BY <1>1, <1>2, <1>3, IntegerTexts
<1>5. NotLoaded["PORT"] = Unset
  BY <1>1 DEF NotLoaded
<1>6. QED
  BY <1>4, <1>5

-----------------------------------------------------------------------------
(* The inductive invariant                                                 *)

\* A started SMTP service has no transporter only if it was to verify it.
VerifyInv ==
    /\ phase = "verifying" => Has(config, "smtpVerifyOnStartup")
    /\ phase = "running" /\ UsesSmtp(config) /\ ~transporter
         => Has(config, "smtpVerifyOnStartup")

\* The settings and process.env of a process are those of its deployment, and
\* a process that has come up has been through the validation.
LoadInv ==
    /\ deployment \in Deployments
    /\ \/ /\ settings = NotLoaded
          /\ processEnv = deployment.shell
          /\ phase = "down"
       \/ /\ settings = Validated(deployment)
          /\ processEnv = Assigned(deployment)
          /\ Accepts(settings)
    /\ phase # "down" => HasDatabase

\* What the properties need, together.
StartupInv == MailTypeOK /\ VerifyInv /\ LoadInv

\* It holds before the first start.
LEMMA InvInit == StartupInit => StartupInv
<1>1. SUFFICES ASSUME StartupInit PROVE StartupInv
  OBVIOUS
<1>2. MailTypeOK /\ VerifyInv
  <2>1. 0 \in 0..MaxOutages
    BY OutagesAssumption
  <2>2. QED
    BY <1>1, <2>1 DEF StartupInit, MailInit, MailTypeOK, VerifyInv
<1>3. LoadInv
  BY <1>1 DEF StartupInit, MailInit, LoadInv
<1>4. QED
  BY <1>2, <1>3 DEF StartupInv

\* StartWithoutVerify creates the transporter that is used.
LEMMA StartWithMail ==
  ASSUME MailTypeOK, VerifyInv, NEW created, created = UsesSmtp(config),
         StartWith(created)
  PROVE  MailTypeOK' /\ VerifyInv'
<1>1. created \in BOOLEAN
  BY DEF UsesSmtp, IsMailConfigured, Has
<1>2. QED
  BY <1>1 DEF StartWith, MailTypeOK, VerifyInv, UsesSmtp

\* The steps of MailService keep its part.
LEMMA MailInvStep ==
  ASSUME MailTypeOK, VerifyInv, MailNext \/ UNCHANGED mailVars
  PROVE  MailTypeOK' /\ VerifyInv'
<1>1. CASE StartWithoutVerify
  BY <1>1, StartWithMail DEF StartWithoutVerify
<1>2. CASE StartVerify
  BY <1>2 DEF StartVerify, MailTypeOK, VerifyInv
<1>3. CASE VerifySucceeds
  BY <1>3 DEF VerifySucceeds, MailTypeOK, VerifyInv
<1>4. CASE VerifyFails
  BY <1>4 DEF VerifyFails, MailTypeOK, VerifyInv
<1>5. CASE SendOtpEmail
  BY <1>5 DEF SendOtpEmail, MailTypeOK, VerifyInv
<1>6. CASE ProviderFails
  <2>1. outages' \in 0..MaxOutages
    BY <1>6, OutagesAssumption DEF ProviderFails, MailTypeOK
  <2>2. QED
    BY <1>6, <2>1 DEF ProviderFails, MailTypeOK, VerifyInv
<1>7. CASE ProviderRecovers
  BY <1>7 DEF ProviderRecovers, MailTypeOK, VerifyInv
<1>8. CASE ProcessExits
  BY <1>8 DEF ProcessExits, MailTypeOK, VerifyInv
<1>9. CASE UNCHANGED mailVars
  BY <1>9 DEF mailVars, MailTypeOK, VerifyInv
<1>10. QED
  BY <1>1, <1>2, <1>3, <1>4, <1>5, <1>6, <1>7, <1>8, <1>9 DEF MailNext, Startup

\* Loading an environment and refusing it are invisible to MailService.
LEMMA MailOrNothing ==
  ASSUME [StartupNext]_serverVars
  PROVE  MailNext \/ UNCHANGED mailVars
BY DEF StartupNext, LoadConfig, StartupRefused, ServerStarts, ServerRuns,
       ProviderStep, MailNext, serverVars

\* And every step keeps the whole.
LEMMA InvStep == StartupInv /\ [StartupNext]_serverVars => StartupInv'
<1>1. SUFFICES ASSUME StartupInv, [StartupNext]_serverVars PROVE StartupInv'
  OBVIOUS
<1> USE <1>1 DEF StartupInv
<1>2. MailTypeOK' /\ VerifyInv'
  <2>1. MailNext \/ UNCHANGED mailVars
    BY MailOrNothing
  <2>2. QED
    BY <2>1, MailInvStep
<1>3. LoadInv'
  <2>1. CASE LoadConfig
    BY <2>1 DEF LoadConfig, LoadInv, mailVars
  <2>2. CASE StartupRefused
    BY <2>2 DEF StartupRefused, ExitsOrStays, LoadInv, mailVars
  <2>3. CASE ServerStarts
    BY <2>3 DEF ServerStarts, ExitsOrStays, LoadInv, HasDatabase, Loaded
  <2>4. CASE ServerRuns
    <3>1. CASE phase' = "down"
      BY <2>4, <3>1 DEF ServerRuns, ExitsOrStays, LoadInv
    <3>2. CASE phase' # "down"
      BY <2>4, <3>2
         DEF ServerRuns, ExitsOrStays, LoadInv, HasDatabase, SendOtpEmail,
             ProcessExits
    <3>3. QED
      BY <3>1, <3>2
  <2>5. CASE ProviderStep
    BY <2>5
       DEF ProviderStep, startupVars, ProviderFails, ProviderRecovers, LoadInv,
           HasDatabase
  <2>6. CASE UNCHANGED serverVars
    BY <2>6 DEF serverVars, startupVars, mailVars, LoadInv, HasDatabase
  <2>7. QED
    BY <2>1, <2>2, <2>3, <2>4, <2>5, <2>6 DEF StartupNext
<1>4. QED
  BY <1>2, <1>3

\* So it holds throughout.
THEOREM InvAlways == StartupSpec => []StartupInv
BY InvInit, InvStep, PTL DEF StartupSpec

\* A variable's setting and its text in process.env come from one text.
LEMMA SettingOf ==
  ASSUME StartupInv, Loaded, NEW v \in Variables
  PROVE  \E t \in Texts(v) :
           /\ settings[v] = Parse(v, t) /\ Parse(v, t) # Throws
           /\ IF deployment.shell[v] = Unset THEN processEnv[v] = settings[v]
              ELSE deployment.shell[v] = t /\ processEnv[v] = t
<1>1. /\ deployment \in Deployments
      /\ settings = Validated(deployment) /\ processEnv = Assigned(deployment)
      /\ Accepts(settings)
  BY DEF StartupInv, LoadInv, Loaded
<1>2. QED
  BY <1>1, TextOf DEF Accepts

\* Variable by variable, the readers agree but on the misread texts.
LEMMA VariableAgrees ==
  ASSUME StartupInv, Loaded, NEW v \in ReadForThemselves
  PROVE  Agrees(v) <=> deployment.shell[v] \notin Misread(v)
<1>1. v \in Variables
  BY DEF ReadForThemselves
<1>2. PICK t \in Texts(v) :
           /\ settings[v] = Parse(v, t) /\ Parse(v, t) # Throws
           /\ IF deployment.shell[v] = Unset THEN processEnv[v] = settings[v]
              ELSE deployment.shell[v] = t /\ processEnv[v] = t
  BY <1>1, SettingOf
<1>3. CASE v = "AI_MODERATION_ENABLED"
  <2>1. Agrees(v) <=> (settings[v] = "true" <=> processEnv[v] = "true")
    BY <1>2, <1>3, EnabledTexts, Kinds DEF Agrees, ServicesEnabled, Singles
  <2>2. QED
    BY <1>2, <1>3, <2>1, EnabledTexts
<1>4. CASE v \in Features
  <2>1. Agrees(v) <=> (settings[v] = "true" <=> processEnv[v] # "false")
    BY <1>2, <1>4, FeatureTexts, Kinds DEF Agrees, FeatureEnabled, Singles
  <2>2. QED
    BY <1>2, <1>4, <2>1, FeatureTexts
<1>5. CASE v \in PositiveIntegers
  <2>1. Agrees(v) <=> settings[v] = IntegerRead(processEnv, v)
    BY <1>5, Kinds DEF Agrees, Singles
  <2>2. QED
    BY <1>2, <1>5, <2>1, IntegerTexts DEF IntegerRead, ReadForThemselves
<1>6. CASE v = "AI_AUTO_APPROVE_CONFIDENCE_MIN"
  <2>1. Agrees(v) <=> settings[v] = ConfidenceRead(processEnv)
    BY <1>6, Kinds DEF Agrees, Singles
  <2>2. QED
    BY <1>2, <1>6, <2>1, ConfidenceTexts DEF ConfidenceRead
<1>7. CASE v = "NODE_ENV"
  <2>1. Agrees(v) <=> /\ processEnv[v] = "test" <=> (settings[v] = "test")
                      /\ processEnv[v] = "production"
                           <=> (settings[v] = "production")
    BY <1>7, Kinds DEF Agrees, Singles, InTest, InProduction
  <2>2. QED
    BY <1>2, <1>7, <2>1, NodeEnvTexts
<1>8. CASE v \in Texted
  <2>1. Agrees(v) <=> settings[v] = TextRead(processEnv, v)
    BY <1>1, <1>8, Kinds DEF Agrees, Singles, Texted
  <2>2. TextRead(processEnv, v) = TextOfText(v, processEnv[v])
    BY DEF TextRead, TextOfText
  <2>3. QED
    BY <1>2, <1>8, <2>1, <2>2, TextTexts
<1>9. v = "AI_MODERATION_ENABLED" \/ v \in Features \/ v \in PositiveIntegers
      \/ v = "AI_AUTO_APPROVE_CONFIDENCE_MIN"
      \/ v = "NODE_ENV" \/ v \in Texted
  BY Kinds DEF ReadForThemselves, Singles, Texted
<1>10. QED
  BY <1>3, <1>4, <1>5, <1>6, <1>7, <1>8, <1>9

-----------------------------------------------------------------------------
(* The properties                                                          *)

\* Settings are what the validation returns of a text; with them come a secret,
\* outside of tests not the example's, and a key when moderation is on; and a
\* process that serves requests has its database.
THEOREM StartupTypesHold == StartupSpec => []StartupTypeOK
<1>1. StartupInv => StartupTypeOK
  <2>1. SUFFICES ASSUME StartupInv PROVE StartupTypeOK
    OBVIOUS
  <2>2. ASSUME NEW v \in Variables
        PROVE  /\ settings[v] \in Texts(v) \cup {Default(v), Parse(v, "")}
                                  \cup {Parse(v, t) : t \in Texts(v)}
               /\ settings[v] # Throws
    <3>1. CASE Loaded
      BY <2>1, <3>1, SettingOf
    <3>2. CASE ~Loaded
      BY <3>2 DEF Loaded, NotLoaded, Texts, Absent, Unset, Throws
    <3>3. QED
      BY <3>1, <3>2
  <2>3. phase # "down" => Loaded /\ HasDatabase
    BY <2>1, Loads DEF StartupInv, LoadInv, Loaded
  <2>4. ASSUME Loaded, settings["AI_MODERATION_ENABLED"] = "true"
        PROVE  settings["OPENROUTER_API_KEY"] \notin Absent
    <3>1. settings["OPENROUTER_API_KEY"] # Unset
      BY <2>1, <2>4 DEF StartupInv, LoadInv, Loaded, Accepts
    <3>2. "OPENROUTER_API_KEY" \in Texted /\ "OPENROUTER_API_KEY" \in Variables
      BY DEF Texted, Variables
    <3>3. settings["OPENROUTER_API_KEY"] # ""
      BY <2>1, <2>4, <3>2, SettingOf, TextTexts
    <3>4. QED
      BY <3>1, <3>3 DEF Absent
  <2>5. ASSUME Loaded
        PROVE  /\ settings["JWT_SECRET"] \notin Absent
               /\ settings["NODE_ENV"] # "test"
                    => Lowered(settings["JWT_SECRET"]) # "dev-secret"
    <3>1. Accepts(settings)
      BY <2>1, <2>5 DEF StartupInv, LoadInv, Loaded
    <3>2. "JWT_SECRET" \in Variables
      BY DEF Variables
    <3>3. settings["JWT_SECRET"] \notin Absent
      BY <2>1, <2>5, <3>2, SettingOf, SecretTexts
    <3>4. QED
      BY <3>1, <3>3 DEF Accepts
  <2>6. QED
    BY <2>1, <2>2, <2>3, <2>4, <2>5 DEF StartupTypeOK, StartupInv
<1>2. QED
  BY <1>1, InvAlways, PTL

\* A server that loads its environment first implements MailService, which
\* takes any configuration as given.
THEOREM StartupImplementsMail == StartupSpec => MailSpec
<1>1. StartupInit => MailInit
  BY DEF StartupInit
<1>2. [StartupNext]_serverVars => [MailNext]_mailVars
  BY MailOrNothing
<1>3. QED
  BY <1>1, <1>2, PTL DEF StartupSpec, MailSpec

\* A startup is refused exactly with a reason to name.
THEOREM RefusalsAreExplained == StartupSpec => []RefusalIsExplained
<1>1. StartupInv => RefusalIsExplained
  BY Explained DEF StartupInv, MailTypeOK, RefusalIsExplained
<1>2. QED
  BY <1>1, InvAlways, PTL

\* A mail is refused only if the provider is down, a variable is missing, or
\* the verification at this startup had failed.
THEOREM RefusalsHaveReasons == StartupSpec => RefusedForAReason
<1>1. StartupInv /\ [StartupNext]_serverVars
      => [ (lastSend' = "unavailable" /\ phase = "running"
                                      /\ lastSend' # lastSend)
          => \/ ~reachable
             \/ MissingConfigKeys(config) # {}
             \/ ~transporter /\ Has(config, "smtpVerifyOnStartup") ]_mailVars
  <2>1. SUFFICES ASSUME StartupInv, [StartupNext]_serverVars,
                        lastSend' = "unavailable", lastSend' # lastSend,
                        phase = "running", reachable,
                        MissingConfigKeys(config) = {}
                 PROVE  ~transporter /\ Has(config, "smtpVerifyOnStartup")
    OBVIOUS
  <2>2. SendOtpEmail
    BY <2>1
       DEF StartupNext, LoadConfig, StartupRefused, ServerStarts, ServerRuns,
           ProviderStep, Startup, StartWithoutVerify, StartWith, StartVerify,
           VerifySucceeds, VerifyFails, ProcessExits, ProviderFails,
           ProviderRecovers, serverVars, mailVars
  <2>3. ~Has(config, "manual") /\ ~Delivers
    BY <2>1, <2>2 DEF SendOtpEmail
  <2>4. config \in Configurations /\ IsMailConfigured(config)
    BY <2>1, Explained DEF StartupInv, MailTypeOK
  <2>5. Has(config, "fromAddress") /\ Provider(config) # "null"
    BY <2>3, <2>4 DEF IsMailConfigured
  <2>6. ~transporter /\ Provider(config) = "smtp"
    BY <2>1, <2>3, <2>4, <2>5, ProviderCases DEF Delivers
  <2>7. UsesSmtp(config)
    BY <2>3, <2>4, <2>6 DEF UsesSmtp
  <2>8. QED
    BY <2>1, <2>6, <2>7 DEF StartupInv, VerifyInv
<1>2. QED
  BY <1>1, InvAlways, PTL DEF StartupSpec, RefusedForAReason

\* Listings are moderated with an enabled flag and a key that were validated,
\* approved by the validated confidence or by none, and polled for in a test
\* environment only when the shell has misspelt it.
THEOREM AutomationStaysValidated == StartupSpec => []AutomationIsValidated
<1>1. StartupInv => AutomationIsValidated
  <2>1. SUFFICES ASSUME StartupInv, phase = "running" PROVE
        /\ ServicesEnabled(processEnv) =>
             /\ settings["AI_MODERATION_ENABLED"] = "true"
             /\ TextRead(processEnv, "OPENROUTER_API_KEY")
                  = settings["OPENROUTER_API_KEY"]
             /\ settings["OPENROUTER_API_KEY"] # Unset
        /\ ConfidenceRead(processEnv) \in
             {settings["AI_AUTO_APPROVE_CONFIDENCE_MIN"], "NaN"}
        /\ Polls(processEnv) /\ settings["NODE_ENV"] = "test"
             => deployment.shell["NODE_ENV"] \in Misread("NODE_ENV")
    BY DEF AutomationIsValidated
  <2>2. Loaded /\ Accepts(settings)
    BY <2>1, Loads DEF StartupInv, LoadInv, Loaded
  <2>3. ASSUME ServicesEnabled(processEnv)
        PROVE  settings["AI_MODERATION_ENABLED"] = "true"
    <3>1. "AI_MODERATION_ENABLED" \in Variables
      BY DEF Variables, Booleans
    <3>2. QED
      BY <2>1, <2>2, <2>3, <3>1, SettingOf, EnabledTexts
         DEF ServicesEnabled, Unset
  <2>4. TextRead(processEnv, "OPENROUTER_API_KEY")
          = settings["OPENROUTER_API_KEY"]
    <3>1. "OPENROUTER_API_KEY" \in Texted /\ "OPENROUTER_API_KEY" \in Variables
      BY DEF Texted, Variables
    <3>2. TextRead(processEnv, "OPENROUTER_API_KEY")
            = TextOfText("OPENROUTER_API_KEY",
                         processEnv["OPENROUTER_API_KEY"])
      BY DEF TextRead, TextOfText
    <3>3. QED
      BY <2>1, <2>2, <3>1, <3>2, SettingOf, TextTexts
  <2>5. ConfidenceRead(processEnv) \in
             {settings["AI_AUTO_APPROVE_CONFIDENCE_MIN"], "NaN"}
    <3>1. "AI_AUTO_APPROVE_CONFIDENCE_MIN" \in Variables
      BY DEF Variables
    <3>2. QED
      BY <2>1, <2>2, <3>1, SettingOf, ConfidenceTexts DEF ConfidenceRead
  <2>6. ASSUME Polls(processEnv), settings["NODE_ENV"] = "test",
               deployment.shell["NODE_ENV"] \notin Misread("NODE_ENV")
        PROVE  FALSE
    <3>1. "NODE_ENV" \in Variables
      BY DEF Variables
    <3>2. processEnv["NODE_ENV"] = settings["NODE_ENV"]
      BY <2>1, <2>2, <2>6, <3>1, SettingOf, NodeEnvTexts
    <3>3. QED
      BY <2>6, <3>2 DEF Polls, InTest
  <2>7. settings["AI_MODERATION_ENABLED"] = "true"
          => settings["OPENROUTER_API_KEY"] # Unset
    BY <2>2 DEF Accepts
  <2>8. QED
    BY <2>3, <2>4, <2>5, <2>6, <2>7
<1>2. QED
  BY <1>1, InvAlways, PTL

\* A setting means the same to the validation and to the services, but for the
\* texts of Misread in the shell, and the cookie lives as long as its token but
\* for a lifetime without a unit or with a fraction of a second.
THEOREM ReadersAgreeUnlessMisread == StartupSpec => []ReadersAgree
<1>1. StartupInv => ReadersAgree
  <2>1. SUFFICES ASSUME StartupInv, phase = "running" PROVE ReadersAgree
    BY DEF ReadersAgree
  <2>2. Loaded
    BY <2>1, Loads DEF StartupInv, LoadInv, Loaded
  <2>3. SameLife(settings["JWT_EXPIRES_IN"])
    <3>1. "JWT_EXPIRES_IN" \in Variables
      BY DEF Variables
    <3>2. QED
      BY <2>1, <2>2, <3>1, SettingOf, DurationTexts
  <2>4. QED
    BY <2>1, <2>2, <2>3, VariableAgrees DEF ReadersAgree, SameLife
<1>2. QED
  BY <1>1, InvAlways, PTL
=============================================================================
