-------------------------- MODULE MCOutputPipeline --------------------------
(* Instances of OutputPipeline for TLC. *)
EXTENDS OutputPipeline

\* A letter, a carriage return, a CSI sequence (bold: ESC [ 1 m).
Plain == {<<"text">>, <<"cr">>}
Bold == <<"esc", "[", "param", "text">>
\* A window title, ended by BEL or by ST; a character-set selection.
TitleBel == <<"esc", "]", "text", "bel">>
TitleSt == <<"esc", "]", "text", "esc", "\\">>
Charset == <<"esc", "interm", "text">>
\* A device control string, ESC P ... ST.
DeviceControl == <<"esc", "text", "param", "esc", "\\">>

MCPieces == Plain \cup {Bold, TitleBel, TitleSt, Charset}
ASSUME MenuIsKnown == \A p \in MCPieces : Known(p)

FewPieces == {<<"text">>, Bold, TitleSt}
DcsPieces == Plain \cup {DeviceControl}

=============================================================================
