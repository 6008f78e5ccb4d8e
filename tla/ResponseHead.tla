---------------------------- MODULE ResponseHead ----------------------------
(***************************************************************************)
(* The text of a response's head: which headers serve_file gives it and    *)
(* what resptostr makes of them, in the cells of HttpBytes.                *)
(***************************************************************************)
EXTENDS HttpBytes, SequencesExt

create_response(status, statusdesc) ==
  [version |-> "HTTP/1.1", status_code |-> status, status_desc |-> statusdesc,
   headers |-> <<>>]

add_header(response, key, value) ==
  [response EXCEPT !.headers = Append(@, [key |-> key, value |-> value])]

HeaderLine(hdr) == hdr.key \o <<COLON, SP>> \o hdr.value \o <<CR, LF>>

\* "%s %d %s\r\n", a line per header, and the blank line.  The body is not part
\* of it.
resptostr(resp) ==
  <<resp.version, SP, resp.status_code, SP, resp.status_desc, CR, LF>>
  \o FlattenSeq([n \in DOMAIN resp.headers |-> HeaderLine(resp.headers[n])])
  \o <<CR, LF>>

\* File names are letter by letter, for the test of their beginning; a word of
\* the head is one cell.
FILES_FOLDER == <<"f", "i", "l", "e", "s">>
Image == <<"i", "m", "a", "g", "e", ".", "p", "n", "g">>

\* The head serve_file sends for a file name, and the digits of its size.
HeadOf(fname, found, clength) ==
  IF ~found
  THEN add_header(create_response("404", "Not Found"), <<"Content-Length">>, <<"0">>)
  ELSE LET length == add_header(create_response("200", "OK"), <<"Content-Length">>, clength)
           typed == IF fname = Image
                    THEN add_header(length, <<"Content-Type">>, <<"image/png">>)
                    ELSE length
       IN  IF IsPrefix(FILES_FOLDER, fname)
           THEN add_header(typed, <<"Content-Disposition">>, <<"attachment">>)
           ELSE typed
=============================================================================
