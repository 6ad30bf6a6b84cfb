-------------------------------- MODULE MCWeb -------------------------------
EXTENDS Web

MCTokens == STRING

Get(uri) == <<"GET", uri, NL>>
First ==
    {Get("/") \o <<NL>>,
     Get("/page") \o <<"x", "y", "z", NL, "Host: b", NL, NL>>,
     Get("/cgi-bin/adder?1&2") \o <<NL>>,
     Get("/cgi-bin/adder") \o <<NL>>,
     Get("/none") \o <<NL>>, Get("/secret") \o <<NL>>, Get("/empty") \o <<NL>>,
     Get("/page"), <<"GET", NL, NL>>, <<>>,
     <<"POST", "/page", NL, NL>>,
     Get("/a:b") \o <<NL>>, Get("http://origin") \o <<NL>>}

Second == {Get("/page") \o <<"Host: a", NL, NL>>, <<"POST", "/page", NL, NL>>}
CONSTANTS c1, c2
MCRequests == c1 :> First @@ c2 :> Second

ASSUME MCRequestsAssumption == NoBodies /\ HostsAreLines /\ SiteReplies

MCPath  == "/" :> "/" @@ "/page" :> "/page" @@ "/secret" :> "/secret" @@ "/empty" :> "/empty"
           @@ "/cgi-bin/adder?1&2" :> "/cgi-bin/adder" @@ "/cgi-bin/adder" :> "/cgi-bin/adder"
MCQuery == "/cgi-bin/adder?1&2" :> "1&2"
MCHome  == "/" :> "/home.html"
Page(f) == <<"200", "static", f, "end">>
Error(e) == <<e, "type", "length", "TinyError">>
MCOtherHdr == {<<>>}
MCSite  == "/" :> Page("/home.html") @@ "/page" :> Page("/page")
           @@ "/cgi-bin/adder?1&2" :> <<"200", "Server", "sum", "1&2">>
           @@ "/cgi-bin/adder" :> <<"200", "Server">>
           @@ "/none" :> Error("404") @@ "/a:b" :> Error("404") @@ "http://origin" :> Error("404")
           @@ "/secret" :> Error("403") @@ "/empty" :> <<"200", "static">>
           @@ "501" :> Error("501")
=============================================================================
