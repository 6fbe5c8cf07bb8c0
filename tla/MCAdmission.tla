---------------------------- MODULE MCAdmission -----------------------------
(***************************************************************************)
(* Values for model checking Admission: three hosts, one of them the       *)
(* metadata service, templates for a base URL, a header or a body, one     *)
(* that a variable's value brings in and one that JSONB shows, and         *)
(* scenarios that differ from an ordinary one in what a check looks at.    *)
(***************************************************************************)
EXTENDS Admission

URL(scheme, host, port) ==
  [scheme |-> scheme, host |-> host, port |-> port, credentials |-> FALSE]

AppHost == <<"com", "app">>
ApiHost == <<"com", "app", "api">>
Metadata == <<"internal", "metadata">>

MCParse == [t \in Texts |->
  CASE t = "http://app"       -> URL("http", AppHost, "")
    [] t = "http://app:81"    -> URL("http", AppHost, "81")
    [] t = "https://api.app"  -> URL("https", ApiHost, "")
    [] t = "http://metadata"  -> URL("http", Metadata, "")
    [] t = "http://me@app"    ->
         [URL("http", AppHost, "") EXCEPT !.credentials = TRUE]
    [] t = "//api.app/x"      -> URL("", ApiHost, "")
    [] t = "http://$HOST"     -> URL("http", <<"$HOST">>, "")
    [] t = "http://$B"        -> URL("http", <<"$B">>, "")
    [] t = "http://[:"        -> URL("invalid", <<>>, "")
    [] OTHER                  -> URL("", <<>>, "")]

MCJSONTexts == {"{a:1}", "{a: 1}", "[u0024B]", "[$B]"}

MCTexts ==
  {"", "x", "/", "long", "none", "http://app", "http://app:81",
   "https://api.app", "http://metadata", "http://me@app", "//api.app/x",
   "http://$HOST", "http://$B", "http://[:"} \cup MCJSONTexts

MCJsonb ==
  [t \in MCJSONTexts |-> CASE t = "{a:1}"    -> "{a: 1}"
                           [] t = "[u0024B]" -> "[$B]"
                           [] OTHER          -> t]

MCSize ==
  [t \in Texts |-> CASE t = ""       -> 0
                     [] t = "{a:1}"  -> 4
                     [] t = "{a: 1}" -> 5
                     [] t = "long"   -> 9
                     [] OTHER        -> 2]

MCTemplates == {"http://$HOST", "http://$B", "[$B]"}

Env(host, b, array) ==
  [t \in MCTemplates |-> CASE t = "http://$HOST" -> host
                           [] t = "http://$B"    -> b
                           [] OTHER              -> array]

MCEnvs ==
  {Env("https://api.app", "", "{a:1}"),
   Env("http://$B", "http://metadata", "x")}

Request(section, path, body) ==
  [section |-> section, name |-> "x", path |-> path, body |-> body,
   json |-> FALSE, headers |-> <<>>]

JSONRequest(section, body) ==
  [Request(section, "/", body) EXCEPT !.json = TRUE]

NoHeaders == [k \in {} |-> ""]

Ordinary ==
  [version |-> 0, name |-> "x", type |-> "", concurrency |-> 0,
   iterations |-> 0, rate |-> 0, attempts |-> 0, target |-> None,
   base |-> "http://app", headers |-> NoHeaders,
   requests |-> {Request("requests", "/", "")}, checksOK |-> TRUE]

With(request) == [Ordinary EXCEPT !.requests = @ \cup {request}]

MCPosted ==
  {Ordinary,
   [Ordinary EXCEPT !.target = "t1", !.base = ""],
   [Ordinary EXCEPT !.base = "http://$HOST", !.type = "retry_storm"],
   [Ordinary EXCEPT !.headers = [k \in {"x"} |-> "http://$HOST"], !.rate = 3],
   [Ordinary EXCEPT !.concurrency = 3, !.rate = 2],
   [Ordinary EXCEPT !.version = 2], [Ordinary EXCEPT !.name = ""],
   [Ordinary EXCEPT !.checksOK = FALSE], [Ordinary EXCEPT !.rate = -1],
   With(Request("setup", "//api.app/x", "long")),
   With(Request("probe", "http://$HOST", "")),
   With(Request("teardown", "http://metadata", "")),
   With(Request("requests", "http://app:81", "x")),
   With(Request("setup", "http://[:", "x")),
   With(JSONRequest("requests", "{a:1}")),
   With(JSONRequest("setup", "[u0024B]"))}

Body(base, headers) ==
  [name |-> "x", environment |-> "", base |-> base, headers |-> headers]

MCTargetBodies ==
  {Body("http://app", [k \in {"x"} |-> "x"]), Body("http://$HOST", NoHeaders),
   Body("http://metadata", NoHeaders), Body("http://me@app", NoHeaders),
   Body("http://app", [k \in {""} |-> "x"]),
   [Body("http://app", NoHeaders) EXCEPT !.environment = "moon"]}

Entry(kind, host, port) == [kind |-> kind, host |-> host, port |-> port]

Limits(concurrency, rate, body, allowlist, allowMetadata) ==
  [maxConcurrency |-> concurrency, maxRate |-> rate, maxBody |-> body,
   allowlist |-> allowlist, allowMetadata |-> allowMetadata]

MCConfigs ==
  {Limits(2, 2, 4, {}, FALSE),
   Limits(0, 0, 0, {Entry("suffix", AppHost, "")}, FALSE),
   Limits(0, 5, 0, {Entry("hostport", AppHost, "81"), Entry("host", ApiHost, "")},
          FALSE),
   Limits(3, 0, 0, {Entry("any", <<>>, "")}, FALSE),
   Limits(3, 3, 0, {}, TRUE)}

MCMetadataHosts == {Metadata}
=============================================================================
