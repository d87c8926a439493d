-------------------------- MODULE NavigationPolicy --------------------------
(***************************************************************************)
(* NavigationPolicy (sourcing/browser/policy.py): what a browser page may  *)
(* open, and what an open page may load.  A URL is what the policy sees of *)
(* it; name resolution is asked last and may fail from one moment to the   *)
(* next, so a verdict is one of a set.                                     *)
(***************************************************************************)
EXTENDS Integers, Sequences, FiniteSets

CONSTANTS
  AllowedHosts,        \* the platform's page hosts
  SignInHosts,         \* hosts the user signs in at
  SubresourceDomains,  \* the platform's registrable domains
  Within,              \* <<host, domain>>: the host is the domain or under it
  Addresses            \* host -> what its name resolves to: kinds of address

\* create_*_policy lists no sign-in host among the pages it collects.
ASSUME SignInAssumption == AllowedHosts # {} /\ AllowedHosts \intersect SignInHosts = {}

BlockedPathSegments == {"checkout", "order", "orders", "pay", "payment", "payments", "trade"}

MaxURL == 2048

Refusals ==
  {"url_too_long", "scheme_not_allowed", "embedded_credentials", "host_not_allowed",
   "sign_in_required", "port_not_allowed", "transaction_path_blocked",
   "dns_resolution_failed", "invalid_network_address", "private_network_blocked"}

\* _allowed_page_host and _allowed_subresource_host: "ok" or the refusal.
PageHost(host) ==
  CASE host \in AllowedHosts -> "ok"
    [] host \in SignInHosts  -> "sign_in_required"
    [] OTHER                 -> "host_not_allowed"

ResourceHost(host) ==
  IF host \in AllowedHosts \/ \E d \in SubresourceDomains : <<host, d>> \in Within
  THEN "ok" ELSE "host_not_allowed"

RefusalOf == [public |-> "none", malformed |-> "invalid_network_address",
              private |-> "private_network_blocked"]

\* _resolve: every address has to be public, and the first that is not decides.
Resolution(host) ==
  CASE Addresses[host] = {}         -> {"dns_resolution_failed"}
    [] Addresses[host] = {"public"} -> {"ok"}
    [] OTHER -> {r \in {"invalid_network_address", "private_network_blocked"} :
                   \E kind \in Addresses[host] : r = RefusalOf[kind]}

\* _validate: the first check that fails decides, and the resolver may fail too.
Verdicts(url, hostVerdict) ==
  IF url.length > MaxURL THEN {"url_too_long"}
  ELSE IF url.scheme # "https" THEN {"scheme_not_allowed"}
  ELSE IF url.credentials THEN {"embedded_credentials"}
  ELSE IF hostVerdict # "ok" THEN {hostVerdict}
  ELSE IF url.port # 443 THEN {"port_not_allowed"}
  ELSE IF url.segments \intersect BlockedPathSegments # {} THEN {"transaction_path_blocked"}
  ELSE Resolution(url.host) \union {"dns_resolution_failed"}

PageVerdicts(url) == Verdicts(url, PageHost(url.host))
ResourceVerdicts(url) == Verdicts(url, ResourceHost(url.host))
=============================================================================
