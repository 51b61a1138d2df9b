--------------------------- MODULE JsonSerializer ---------------------------
(***************************************************************************)
(* parson's serializer, from values to JsonParser's symbols.  Recursive:   *)
(* for TLC only.                                                           *)
(***************************************************************************)
EXTENDS JsonParser

\* Faulty variant: a backslash is written as it is.
EscapeNotBackslash(c) ==
    CASE c \in {"quote", "/"} -> <<"bs", c>>
      [] c = "nl" -> <<"bs", "n">>
      [] c = "ctl" -> <<"bs", "u", "0001">>
      [] OTHER -> <<c>>

Escape(c) ==
    CASE c \in {"quote", "bs", "/"} -> <<"bs", c>>
      [] c = "nl" -> <<"bs", "n">>        \* \b, \f, \r and \t are alike
      [] c = "ctl" -> <<"bs", "u", "0001">>
      [] OTHER -> <<c>>

json_serialize_string(s) ==
    <<"quote">> \o FlattenSeq([i \in DOMAIN s |-> Escape(s[i])]) \o <<"quote">>

Indent(level) == [i \in 1 .. level |-> "sp"]

RECURSIVE json_serialize(_, _, _, _)
json_serialize(h, v, level, is_pretty) ==
    LET count == Len(h[v].items)
        Layout(s) == IF is_pretty THEN s ELSE <<>>
        Item(i) ==
            Layout(Indent(level + 1))
            \o (IF h[v].type = "object"
                THEN json_serialize_string(h[v].names[i]) \o <<":">> \o Layout(<<"sp">>)
                ELSE <<>>)
            \o json_serialize(h, h[v].items[i], level + 1, is_pretty)
            \o (IF i < count THEN <<",">> ELSE <<>>)
            \o Layout(<<"nl">>)
    IN  CASE h[v].type \in {"array", "object"} ->
                <<Brackets[h[v].type][1]>>
                \o (IF count > 0 THEN Layout(<<"nl">>) ELSE <<>>)
                \o FlattenSeq([i \in 1 .. count |-> Item(i)])
                \o (IF count > 0 THEN Layout(Indent(level)) ELSE <<>>)
                \o <<Brackets[h[v].type][2]>>
          [] h[v].type = "string" -> json_serialize_string(h[v].text)
          [] OTHER -> h[v].text
=============================================================================
