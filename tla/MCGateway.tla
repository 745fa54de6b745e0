----------------------------- MODULE MCGateway -----------------------------
(* A small instance of Gateway for TLC.                                    *)
EXTENDS Gateway

CONSTANT r1

OneRequest == {r1}

\* "zero" parses, "soon" does not.
HourStrings == [zero |-> 0]

Model(p, r)    == [provider |-> p, reasoning |-> r]
Provider(b, c) == [plugin |-> b, credential |-> c]

\* Two aliases of two instances of one plugin, one with a credential.
Base ==
    [level |-> "", retention |-> "zero", full_retention |-> "soon", plugins |-> {"compat"},
     providers |-> [main |-> Provider("compat", "key"), local |-> Provider("compat", "")],
     credentials |-> {"key"},
     models |-> [large |-> Model("main", "HIGH"), small |-> Model("local", "")]]

\* Files that Load accepts: a level for each way to record, one not in lower
\* case, one file with one provider, and one with an alias whose reasoning level
\* is found wrong only when it is asked for.
Good ==
    {[Base EXCEPT !.level = "OFF"],
     [Base EXCEPT !.level = "off", !.providers = [local |-> Provider("compat", "")], !.models = <<>>],
     [Base EXCEPT !.level = "full", !.retention = "", !.models.large.reasoning = "huge"]}

\* Files with something missing, or a level that is none.
Bad ==
    {[Base EXCEPT !.level = "verbose"],
     [Base EXCEPT !.models.large.provider = "other"],
     [Base EXCEPT !.models.small.provider = ""],
     [Base EXCEPT !.providers.local.plugin = "other"],
     [Base EXCEPT !.credentials = {}]}

AllFiles == Good \cup Bad

AllAsks == [model : {"large", "small", "other"}, effort : {"", "huge"}, object : {"", "max", "huge"}]
=============================================================================
