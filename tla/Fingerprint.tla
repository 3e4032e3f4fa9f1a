---------------------------- MODULE Fingerprint -----------------------------
(***************************************************************************)
(* FingerprintEngine of fingerprint/mod.rs: the rules, the class of a page *)
(* and the triage score, as operators on what the probe has seen.          *)
(*                                                                         *)
(* A pattern of the code is a sequence of tokens of the page, so that one  *)
(* that something has been put into the middle of does not match.  Of the  *)
(* alternatives of a pattern one or two stand for all.                     *)
(*                                                                         *)
(* Nothing uses an operator marked as a faulty variant: it is the one      *)
(* below it with a plausible mistake, for the mutation checks.             *)
(***************************************************************************)
EXTENDS Naturals, Sequences, FiniteSets, FiniteSetsExt, SequencesExt

CONSTANTS
  Enabled,            \* the FingerprintToggles that are on
  Weights,            \* SuspicionWeights: the points of each reason
  ScoreLimit          \* 2^32: the first score a u32 does not hold

ASSUME FingerprintAssumption ==
  /\ Weights \in [DOMAIN Weights -> 0 .. ScoreLimit - 1]
  /\ ScoreLimit \in Nat \ {0}

\* SuspicionWeights::default.
DefaultWeights ==
  [reason \in {"high port", "uncommon server", "login_panel", "admin_panel", "artifacts",
               "unknown"} |-> 2]
  @@ [reason \in {"absent server", "self-signed", "expired"} |-> 1]
  @@ [reason \in {"directory_listing", "hfs"} |-> 3]

RuleEnabled(rule) == rule.name \in Enabled

Shows(page, pattern) == pattern \in SubSeqs(page)

\* extract_title: the first one.  A title is also part of the text of the page.
TitleTokens == {"title HFS", "title HFS 2", "title Tomcat", "title Panel"}
Title(page) ==
  LET at == {k \in DOMAIN page : page[k] \in TitleTokens}
  IN  IF at = {} THEN "none" ELSE page[Min(at)]

-----------------------------------------------------------------------------
\* The table in FingerprintEngine::new: what each rule looks for, and where.  The servers of
\* a rule are the banners of the model that its pattern matches: the one of go-http is not
\* anchored and finds the "gin" of "nginx" too.
Rule(name, server, header, title, body) ==
  [name |-> name, server |-> server, header |-> header, title |-> title, body |-> body]
Rules == <<
  Rule("hfs", {"HFS 2"}, {}, {"title HFS", "title HFS 2"}, {<<"rejetto">>, <<"title HFS 2">>}),
  Rule("apache", {"Apache"}, {}, {}, {}),
  Rule("nginx", {"nginx"}, {}, {}, {}),
  Rule("iis", {"Microsoft-IIS"}, {"X-AspNet-Version"}, {}, {}),
  Rule("python-simplehttpserver", {"SimpleHTTP"}, {}, {}, {<<"directory", "listing">>}),
  Rule("tomcat", {"Apache-Coyote"}, {}, {"title Tomcat"}, {<<"apache tomcat">>}),
  Rule("jetty", {"Jetty"}, {}, {}, {}),
  Rule("nodejs", {"Express"}, {"X-Powered-By"}, {}, {}),
  Rule("go-http", {"gin", "nginx"}, {"nosniff"}, {}, {<<"go net/http">>}) >>

Banners == {"none", "odd"} \cup UNION {Rules[k].server : k \in DOMAIN Rules}
CommonServers == {"Apache", "nginx", "Microsoft-IIS", "Apache-Coyote", "Jetty"}

\* match_surface: where a rule finds what it looks for...
Evidence(rule, seen) ==
  {place \in {"server", "header", "title", "body"} :
     CASE place = "server" -> seen.server \in rule.server
       [] place = "header" -> rule.header \cap seen.headers # {}
       [] place = "title"  -> Title(seen.page) \in rule.title
       [] place = "body"   -> \E pattern \in rule.body : Shows(seen.page, pattern)}

\* ... whether that is enough, and how sure it makes.
AnyIsEnough(rule, evidence) == evidence # {}                    \* faulty variant
IsEnough(rule, evidence) ==
  /\ evidence # {}
  /\ rule.name = "hfs" => Cardinality(evidence) >= 2
  /\ rule.name = "go-http" => Cardinality(evidence) >= 2 \/ "server" \in evidence
Confidence(rule, evidence) ==
  CASE rule.name = "hfs"         -> 96
    [] rule.name # "hfs" /\ Cardinality(evidence) >= 2 -> 92
    [] OTHER                     -> 78

\* analyze: the places in the table of the enabled rules that match.
Matches(seen) ==
  {k \in DOMAIN Rules :
     RuleEnabled(Rules[k]) /\ IsEnough(Rules[k], Evidence(Rules[k], seen))}
Names(seen) == {Rules[k].name : k \in Matches(seen)}

\* max_by keeps the last of the surest.
KnownProduct(seen) ==
  LET sure(k) == Confidence(Rules[k], Evidence(Rules[k], seen))
      surest == {k \in Matches(seen) : \A j \in Matches(seen) : sure(j) <= sure(k)}
  IN  IF Matches(seen) = {} THEN "none" ELSE Rules[Max(surest)].name

\* The class of a page: the first of these that holds.
ClassOrder == <<"file_server", "directory_listing", "login_panel", "admin_panel", "api",
                "generic_web">>
Holds(class, seen) ==
  CASE class = "file_server" -> "hfs" \in Names(seen)
    [] class = "directory_listing" ->
         /\ class \in Enabled
         /\ \/ Shows(seen.page, <<"index", "of">>)
            \/ Shows(seen.page, <<"directory", "listing">>)
    [] class = "login_panel" ->
         /\ class \in Enabled
         /\ Shows(seen.page, <<"form">>) /\ Shows(seen.page, <<"password">>)
    [] class = "admin_panel" ->
         /\ class \in Enabled
         /\ \/ Shows(seen.page, <<"title Panel">>)
            \/ Shows(seen.page, <<"dashboard">>)
    [] class = "api" -> "json" \in seen.headers
    [] class = "generic_web" -> TRUE
Class(seen) == ClassOrder[Min({k \in DOMAIN ClassOrder : Holds(ClassOrder[k], seen)})]

-----------------------------------------------------------------------------
\* suspicion_score: the reasons that apply to a service and weigh something.
Reasons(service) ==
  LET web == service.protocol \in {"http", "https"}
  IN  {reason \in DOMAIN Weights :
        /\ Weights[reason] > 0
        /\ CASE reason = "high port"       -> service.highPort
             [] reason = "absent server"   -> web /\ service.server = "none"
             [] reason = "uncommon server" ->
                  web /\ service.server \notin CommonServers \cup {"none"}
             [] reason \in {"directory_listing", "login_panel", "admin_panel"} ->
                  service.class = reason
             [] reason = "hfs"             -> "hfs" \in service.fingerprints
             [] reason \in {"self-signed", "expired"} -> reason \in service.certificate
             [] reason = "artifacts"       -> Shows(service.page, <<".exe">>)
             [] reason = "unknown"         ->
                  web /\ service.fingerprints = {} /\ ~service.icon}

Points(reasons) == MapThenSumSet(LAMBDA reason : Weights[reason], reasons)

\* The sum is one of u32: it wraps where overflow is not checked.
Score(reasons) == Points(reasons) % ScoreLimit

=============================================================================
