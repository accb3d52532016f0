----------------------------- MODULE Programs_mc -----------------------------
(* The constants of Programs for TLC. *)
EXTENDS Programs

QuoteRemoval(w) == IF w = "'E'" THEN "E" ELSE w

HereDoc(literal, text) == Redir("0", "<<", "", Body(literal, text))
HereDocTabs(literal, text) == Redir("0", "<<-", "", Body(literal, text))
ToFile(fd) == Redir(fd, ">", "f", Placeholder)
Plain(words, redirs) == Node("simple", <<>>, words, <<>>, redirs)

SimpleCommands ==
  {Node("simple", <<"v=1">>, <<"a", "if", "v=1", "2">>, <<>>, <<ToFile("2")>>),
   Plain(<<>>, <<HereDocTabs(FALSE, <<"E", "x", "nl">>), ToFile("1"), HereDoc(TRUE, <<>>)>>)}
Added == {Plain(<<"a">>, <<>>), Plain(<<"c">>, <<HereDoc(FALSE, <<"w", "\\", "\\", "nl">>)>>)}
After == Node("{", <<>>, <<>>, <<Plain(<<"b">>, <<HereDocTabs(TRUE, <<"y", "\\", "nl">>)>>)>>, <<>>)
Tails == {<<>>, <<ToFile("2")>>, <<ToFile("2"), HereDoc(FALSE, <<"nl", "z", "nl">>)>>}
==============================================================================
