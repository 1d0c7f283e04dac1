----------------------------- MODULE MCDataTask -----------------------------
EXTENDS DataTask
MCCalendar == {<<19, 11, 30>>, <<19, 12, 1>>, <<20, 1, 15>>}
=============================================================================
