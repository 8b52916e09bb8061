---------------------------- MODULE MCDpiEngine -----------------------------
EXTENDS DpiEngine, TLC

Filter(pattern, priority, group) ==
    [pattern |-> pattern, priority |-> priority, group |-> group]

Www == <<"www", "a", "com">>
Site == <<"a", "com">>
Other == <<"b">>
Mail == <<"mail", "a", "com">>

\* More hosts than slots; two with one hash and one whose hash is 0.
MCHosts == {Www, Site, Other, Mail}
MCHash == Www :> 1 @@ Site :> 1 @@ Mail :> 2 @@ Other :> 0
MCKey == Www :> 1 @@ Site :> 2 @@ Mail :> 3 @@ Other :> 2

Dpi(filters, link) == [enabled |-> TRUE, filters |-> filters, links |-> [spi |-> link]]

Suffix == Filter(<<"suffix", Site>>, 2, "site")
Exact == Filter(<<"exact", Www>>, 2, "www")
Mailbox == Filter(<<"exact", Mail>>, 3, "mail")
CatchFirst == Filter(<<"any">>, 1, "all")

MCConfigs ==
    {[enabled |-> FALSE, filters |-> <<>>, links |-> [spi |-> "site"]],
     Dpi(<<Suffix, CatchFirst>>, None),
     Dpi(<<Mailbox, Suffix, Exact>>, "site")}

=============================================================================
