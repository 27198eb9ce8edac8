------------------------- MODULE MCProgressExporter -------------------------
EXTENDS ProgressExporter

\* A block with a counter of two digits, a value that is no number and a
\* line end with a carriage return; and one that reports the counter again.
MCScripts ==
    { <<"frame", "=", "1", "2", "CR", "LF", "fps", "=", "N/A", "LF", "progress", "=", "LF">>,
      <<"frame", "=", "3", "LF", "speed", "=", "1", "x", "LF">> }

\* A line too long for the buffer and an empty one, of a producer that does
\* not end its blocks; and the end of a block.
MCLongScripts ==
    { <<"junk", "junk", "junk", "LF", "CR", "LF">>, <<"progress", "=", "LF">> }

MCShortScripts == { <<"junk", "LF">> }
=============================================================================
