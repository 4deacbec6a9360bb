------------------------------ MODULE MCHandlers ------------------------------
(***************************************************************************)
(* What the handlers of PRIVMSG use, for TLC: the rate limiter of the      *)
(* bots, their pseudonyms, the memory of the provider and the maps of the  *)
(* plugins. They have no state in common: a behaviour is one of one part,  *)
(* chosen at the start, and the others rest; interleavings would only      *)
(* multiply states.                                                        *)
(***************************************************************************)
EXTENDS RateLimiter, Conversation, Plugins, Privacy, TLC

CONSTANTS ip, ub, echo, urban

VARIABLE part

handlersVars == <<vars, convVars, pluginVars, privacyVars, part>>

\* Two scripts that want the same name, and one of them another.
MCRegisters == echo :> <<ip>> @@ urban :> <<ip, ub>>

\* A nick with brackets, parts of it, and the bot's; what is said of them:
\* "a a", "[a]", "a[b]", "ba" and "E1 a". With two digits the second alias begins with
\* the first.
MCNicks == {<<"a">>, <<"[", "a", "]">>, <<"]">>, <<"b">>}
MCExcluded == {<<"b">>}
MCTexts == {<<"a", " ", "a">>, <<"[", "a", "]">>, <<"a", "[", "b", "]">>, <<"b", "a">>,
            <<"E", "1", " ", "a">>}
MCRemembered == {<<"[", "a", "]">>}
MCCharacters == {"a", "b", " ", "[", "]", "0", "1"}
MCDigits == <<"0", "1">>

HandlersInit ==
  /\ Init /\ ConvInit /\ PluginsInit /\ PrivacyInit
  /\ part \in {"limiter", "conversation", "plugins", "privacy"}
  /\ part # "conversation" => provider = CHOOSE p \in Providers : TRUE

HandlersNext ==
  \/ part = "limiter" /\ Next /\ UNCHANGED <<convVars, pluginVars, privacyVars, part>>
  \/ part = "conversation" /\ ConvNext /\ UNCHANGED <<vars, pluginVars, privacyVars, part>>
  \/ part = "plugins" /\ PluginsNext /\ UNCHANGED <<vars, convVars, privacyVars, part>>
  \/ part = "privacy" /\ PrivacyNext /\ UNCHANGED <<vars, convVars, pluginVars, part>>

HandlersSpec == HandlersInit /\ [][HandlersNext]_handlersVars
-----------------------------------------------------------------------------
\* The values of the variables of the conversation, the plugins and the pseudonyms.
HandlersTypeOK == ConvTypeOK /\ PluginsTypeOK /\ PrivacyTypeOK
=============================================================================
