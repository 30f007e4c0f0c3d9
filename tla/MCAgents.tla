------------------------------ MODULE MCAgents ------------------------------
(***************************************************************************)
(* An instance of Agents for TLC: six routers, plans of up to three tasks  *)
(* with up to two dependencies each, three documents.                      *)
(***************************************************************************)
EXTENDS Agents, SequencesExt

Router(registered, default, fallback, enabled) ==
    [registered |-> registered, default |-> default, fallback |-> fallback,
     enabled |-> enabled]

\* Both providers; a third one; the fallback missing; the default one missing; the
\* default one as its own fallback; failing over switched off.
SomeRouters ==
    { Router(<<"gemini", "groq">>, "gemini", "groq", TRUE),
      Router(<<"local", "groq", "gemini">>, "gemini", "groq", TRUE),
      Router(<<"gemini">>, "gemini", "groq", TRUE),
      Router(<<"groq">>, "gemini", "groq", TRUE),
      Router(<<"groq", "gemini">>, "groq", "groq", TRUE),
      Router(<<"gemini", "groq">>, "gemini", "groq", FALSE) }

Ids == {"a", "b", "c", "elsewhere"}

\* The tasks called ids, with up to two dependencies each on others.
PlansOf(ids, others) ==
    {[i \in DOMAIN ids |-> [id |-> ids[i], dependencies |-> deps[i]]] :
        deps \in [DOMAIN ids -> UNION {[1 .. n -> others] : n \in 0 .. 2}]}

AllPlans == PlansOf(<<"a">>, Ids) \cup PlansOf(<<"a", "b">>, Ids)
                \cup PlansOf(<<"a", "a">>, {"a"}) \cup PlansOf(<<"a", "b", "c">>, Ids \ {"elsewhere"})

\* No text; one chunk; two chunks with a window of blanks between them.
SomeDocuments ==
    { [id |-> "empty", length |-> 0, blank |-> {}],
      [id |-> "short", length |-> 3, blank |-> {1}],
      [id |-> "long", length |-> 9, blank |-> 3 .. 7] }
=============================================================================
