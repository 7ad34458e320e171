----------------------------- MODULE Environment -----------------------------
(***************************************************************************)
(* The environment variables: what validateEnvironment makes of each text, *)
(* which texts it refuses, and what the services that read the variables   *)
(* for themselves make of the same text.                                   *)
(*                                                                         *)
(* Texts(v) has one text of every class that a reader tells apart; "TRUE"  *)
(* stands for every spelling with capitals or spaces around.  A value is   *)
(* the text that `${value}` gives, as ConfigModule writes it back.         *)
(***************************************************************************)
EXTENDS Integers

Unset  == "(unset)"
Throws == "(throws)"
Absent == {Unset, ""}

Features == {"AI_MODERATION_ENABLE_RESPONSE_HEALING",
             "AI_MODERATION_PROVIDER_REQUIRE_PARAMETERS"}
Booleans == Features \cup {"AI_MODERATION_ENABLED"}
PositiveIntegers == {"PORT", "OTP_EXPIRES_MINUTES", "AI_MODERATION_TIMEOUT_MS",
                     "AI_MODERATION_PREFERRED_MAX_LATENCY_MS"}
Variables == Booleans \cup PositiveIntegers \cup
    {"NODE_ENV", "JWT_SECRET", "JWT_EXPIRES_IN", "OPENROUTER_API_KEY",
     "AI_MODERATION_MODEL", "AI_AUTO_APPROVE_CONFIDENCE_MIN",
     "AI_MODERATION_PROVIDER_SORT", "TRUST_PROXY", "DATABASE_URL"}

Texts(v) == Absent \cup
    CASE v \in Booleans -> {"true", "TRUE", "1", "false", "FALSE", "0", "maybe"}
      [] v \in PositiveIntegers -> {"3000", "20", "20s", "0", "many"}
      [] v = "NODE_ENV" -> {"production", "Production", "test", "Test", "staging"}
      [] v = "JWT_SECRET" -> {"dev-secret", "DEV-SECRET", "long random"}
      [] v = "JWT_EXPIRES_IN" -> {"7d", "15M", "90s", "500ms", "2000ms", "3600",
                                    "0", "soon"}
      [] v = "AI_AUTO_APPROVE_CONFIDENCE_MIN" -> {"0", "0.9", "0.9x", "1.5", "high"}
      [] v = "AI_MODERATION_PROVIDER_SORT" -> {"latency", "Price", "random"}
      [] v = "TRUST_PROXY" -> {"true", "1", "0", "2", "Loopback", "10.0.0.1"}
      [] OTHER -> {"some text"}

Default(v) ==
    CASE v = "AI_MODERATION_ENABLED" -> "false"
      [] v \in Features -> "true"
      [] v = "PORT" -> "3000"
      [] v = "OTP_EXPIRES_MINUTES" -> "5"
      [] v = "AI_MODERATION_TIMEOUT_MS" -> "30000"
      [] v = "AI_MODERATION_PREFERRED_MAX_LATENCY_MS" -> "20000"
      [] v = "NODE_ENV" -> "development"
      [] v = "JWT_EXPIRES_IN" -> "7d"
      [] v = "AI_MODERATION_MODEL" -> "openrouter/free"
      [] v = "AI_AUTO_APPROVE_CONFIDENCE_MIN" -> "0.85"
      [] v = "AI_MODERATION_PROVIDER_SORT" -> "latency"
      [] OTHER -> Unset

-----------------------------------------------------------------------------
(* The language's own conversions                                          *)

\* trim and toLowerCase.
Lowered(t) ==
    CASE t = "TRUE" -> "true"             [] t = "FALSE" -> "false"
      [] t = "Production" -> "production" [] t = "Test" -> "test"
      [] t = "DEV-SECRET" -> "dev-secret" [] t = "15M" -> "15m"
      [] t = "Price" -> "price"           [] t = "Loopback" -> "loopback"
      [] OTHER -> t

\* Number.parseInt and Number.parseFloat: what follows the number is ignored.
ParseInt(t) == CASE t \in {"0", "20", "3000", "20000", "30000"} -> t
                 [] t = "20s" -> "20"
                 [] OTHER -> "NaN"
ParseFloat(t) == CASE t \in {"0", "0.85", "0.9", "1.5"} -> t
                   [] t = "0.9x" -> "0.9"
                   [] OTHER -> "NaN"

\* The number and the unit of what DURATION_PATTERN or /^\d+$/ accepts.
NoDuration == <<0, "none">>
Duration(t) == CASE Lowered(t) = "7d"  -> <<7, "d">>
                 [] Lowered(t) = "15m" -> <<15, "m">>
                 [] t = "90s"   -> <<90, "s">>
                 [] t = "500ms" -> <<500, "ms">>
                 [] t = "2000ms" -> <<2000, "ms">>
                 [] t = "3600"  -> <<3600, "">>
                 [] t = "0"     -> <<0, "">>
                 [] OTHER -> NoDuration
Milliseconds == [ms |-> 1, s |-> 1000, m |-> 60000, h |-> 3600000,
                 d |-> 86400000, w |-> 604800000]

-----------------------------------------------------------------------------
(* validateEnvironment                                                     *)

TrueWords  == {"true", "1", "on", "yes"}
FalseWords == {"false", "0", "off", "no"}

ParseBoolean(t) == CASE Lowered(t) \in TrueWords -> "true"
                     [] Lowered(t) \in FalseWords -> "false"
                     [] OTHER -> Throws

ParsePositiveInteger(t) == IF ParseInt(t) \in {"NaN", "0"} THEN Throws ELSE ParseInt(t)

ParseNodeEnv(t) ==
    IF Lowered(t) \in {"development", "production", "test"} THEN Lowered(t) ELSE Throws

ParseDuration(t) == IF Duration(t) = NoDuration THEN Throws ELSE t

\* A hop count of 1 is the word for true.
ParseTrustProxy(t) ==
    CASE Lowered(t) \in FalseWords -> "false"
      [] Lowered(t) \in TrueWords -> "true"
      [] Lowered(t) \in {"2", "loopback", "linklocal", "uniquelocal"} -> Lowered(t)
      [] OTHER -> Throws

ParseOpenRouterProviderSort(t) ==
    IF Lowered(t) \in {"latency", "price", "throughput"} THEN Lowered(t) ELSE Throws

ParseConfidence(t) == IF ParseFloat(t) \in {"NaN", "1.5"} THEN Throws ELSE ParseFloat(t)

ParsePresent(v, t) ==
    CASE v \in Booleans -> ParseBoolean(t)
      [] v \in PositiveIntegers -> ParsePositiveInteger(t)
      [] v = "NODE_ENV" -> ParseNodeEnv(t)
      [] v = "JWT_EXPIRES_IN" -> ParseDuration(t)
      [] v = "TRUST_PROXY" -> ParseTrustProxy(t)
      [] v = "AI_MODERATION_PROVIDER_SORT" -> ParseOpenRouterProviderSort(t)
      [] v = "AI_AUTO_APPROVE_CONFIDENCE_MIN" -> ParseConfidence(t)
      [] OTHER -> t

ParseAbsent(v) ==
    CASE v = "JWT_SECRET" -> Throws
      [] v = "TRUST_PROXY" -> "false"
      [] OTHER -> Default(v)

\* DATABASE_URL is not validated.
Parse(v, t) == IF t \in Absent /\ v # "DATABASE_URL" THEN ParseAbsent(v)
                                                   ELSE ParsePresent(v, t)

ValidateEnvironment(c) == [v \in Variables |-> Parse(v, c[v])]

\* Mutant: the rules about one variable alone are all there is.
AcceptsAnyKey(s) == \A v \in Variables : s[v] # Throws

\* What it returns from; it throws on everything else.
Accepts(s) ==
    /\ \A v \in Variables : s[v] # Throws
    /\ s["NODE_ENV"] # "test" => Lowered(s["JWT_SECRET"]) # "dev-secret"
    /\ s["AI_MODERATION_ENABLED"] = "true" => s["OPENROUTER_API_KEY"] # Unset

-----------------------------------------------------------------------------
(* The readers of process.env and of the validated settings                *)

\* Mutant: the variable is compared as the two optional features are.
EnabledUnlessFalse(p) == p["AI_MODERATION_ENABLED"] # "false"

\* enabled, of the job service, the workflow and the model service.
ServicesEnabled(p) == p["AI_MODERATION_ENABLED"] = "true"

\* requireParameters and enableResponseHealing
FeatureEnabled(p, v) == p[v] # "false"

\* timeoutMs and preferredMaxLatencyMs: only null and undefined have a default.
IntegerRead(p, v) == IF p[v] = Unset THEN Default(v) ELSE ParseInt(p[v])

\* Mutant: read with Number(), for which an empty text is zero.
ConfidenceAsNumber(p) ==
    LET t == p["AI_AUTO_APPROVE_CONFIDENCE_MIN"]
    IN  IF t = "" THEN "0" ELSE ParseFloat(t)

\* autoApproveConfidenceMin
ConfidenceRead(p) ==
    LET t == p["AI_AUTO_APPROVE_CONFIDENCE_MIN"]
    IN  IF t = Unset THEN "0.85" ELSE ParseFloat(t)

\* providerSort, model and apiKey: trim, then || a default.
TextRead(p, v) == IF p[v] \in Absent THEN Default(v)
                  ELSE IF v = "AI_MODERATION_PROVIDER_SORT" THEN Lowered(p[v]) ELSE p[v]

\* The worker does not poll in a test environment, and polls when its jobs are
\* enabled otherwise.
InTest(p) == p["NODE_ENV"] = "test"
Polls(p) == ServicesEnabled(p) /\ ~InTest(p)

\* getCorsOriginOption: without a list of origins none is allowed in production
\* and every one elsewhere.
InProduction(p) == p["NODE_ENV"] = "production"

\* parseDurationToMs, for the cookie.
CookieMs(t) == LET d == Duration(t)
               IN  d[1] * (IF d[2] = "" THEN 1000 ELSE Milliseconds[d[2]])

\* jsonwebtoken, to which the same text is passed: a number without a unit is
\* one of milliseconds, and a token expires at a whole second, rounded down.
TokenMs(t) == LET d == Duration(t)
                  ms == d[1] * (IF d[2] = "" THEN 1 ELSE Milliseconds[d[2]])
              IN  1000 * (ms \div 1000)
=============================================================================
