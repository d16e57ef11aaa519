---------------------------- MODULE MCHttpParser ----------------------------
(***************************************************************************)
(* Finite instances of HttpParser: a method of one letter, a version of    *)
(* three bytes, and lines put together from right and wrong parts.         *)
(***************************************************************************)
EXTENDS HttpParser

MCOthers == {"g", "G", "v", "1"}
MCLowerCase == [c \in {"G"} |-> "g"]
MCMethods == {<<"g">>}
MCVersions == {<<"v", "/", "1">>}
MCHttp == <<"1", ":", "/", "/">>
MCHttps == <<"1", "1", ":", "/", "/">>

(* All sequences over S of at most n elements.                             *)
UpTo(S, n) == UNION {[1 .. k -> S] : k \in 0 .. n}

Eols == {<<"\n">>, <<"\r", "\n">>, <<"\r", "\n", "g">>}

(* Every short target in an otherwise right line, and for some targets a   *)
(* method that is not known and versions that are short, long, misplaced,  *)
(* or hold a byte that does not belong there.                              *)
RequestLines ==
    {<<"g", " ">> \o t \o <<" ", "v", "/", "1">> \o e :
        t \in UpTo({"/", "?", ":", " ", "1"}, 4), e \in Eols \ {<<"\r", "\n", "g">>}}
    \cup
    {m \o <<" ">> \o t \o <<" ">> \o v \o e :
        m \in {<<"g">>, <<"g", "/">>},
        t \in {<<"/">>, <<"/", "?">>, <<":", "/">>, <<"?", "/">>},
        v \in {<<"v", "/", "1", "?">>, <<"v", "1">>, <<"/", "1">>, <<"v", "/", "1", "1">>,
               <<"v", "/", "1", ":">>, <<"v", "1", "/">>, <<>>},
        e \in Eols}

AbsoluteLines ==
    {<<"g", " ">> \o MCHttp \o h \o <<" ", "v", "/", "1", "\n">> :
        h \in {<<"v", "/">>, <<"v", ":", "1", "/">>}}

HeaderLines ==
    {k \o v \o e : k \in UpTo({"G", ":"}, 2), v \in UpTo({":", " ", "1", "\r"}, 4),
                   e \in Eols}
    \cup {<<"G", "g", ":">> \o v \o <<"\n">> : v \in UpTo({" ", "1"}, 5)}

(* The peer stops in the middle of a line.                                 *)
Unended == {<<"g", " ", "/", "?", "1">>, <<"g", " ", "/", " ", "v", "/", "1", "\r">>,
            <<"G", ":", "1", " ", "1", " ">>}

Input(k, t) == [kind |-> k, text |-> t]

MCInputs == {Input("request", t) : t \in RequestLines \cup AbsoluteLines}
            \cup {Input("header", t) : t \in HeaderLines}
            \cup {Input(k, t) : k \in Kinds, t \in Unended}
AbsoluteInputs == {Input("request", t) : t \in AbsoluteLines}
=============================================================================
