---------------------------- MODULE MCPriceSweep ----------------------------
\* Values for the small instances of PriceSweep that TLC explores.
EXTENDS PriceSweep, TLC

NoCard == {}

Row(status, cursor) == [job |-> 0, provider |-> Primary, status |-> status,
                        cursor |-> cursor, failed |-> FALSE]

\* The first sweep ever; a night the budget cut short; and such a night
\* followed by a run that a killed process left RUNNING.
ThreePasts == {<<>>, <<Row("PARTIAL", 1)>>, <<Row("PARTIAL", 2), Row("RUNNING", 1)>>}
=============================================================================
