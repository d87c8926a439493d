-------------------------- MODULE MCBrowserManager --------------------------
EXTENDS BrowserManager, TLC

CONSTANTS searchHost, signInHost, adsHost, jd, item, signIn, ad

At(host, scheme) ==
  [length |-> 40, scheme |-> scheme, credentials |-> FALSE, host |-> host, port |-> 443,
   segments |-> {}]

MCParts ==
  (item :> At(searchHost, "https")) @@ (signIn :> At(signInHost, "https"))
    @@ (ad :> At(adsHost, "https")) @@ (ErrorPage :> At(NoOne, "chrome-error"))
MCWithin == {<<searchHost, jd>>, <<signInHost, jd>>}
MCAddresses == [h \in {searchHost, signInHost, adsHost} |-> {"public"}]
=============================================================================
