SPECIFICATION Spec
CONSTANT Programs <- MCPrograms
INVARIANTS TypeOK WritesMatchTable
PROPERTIES PullsWhatWasPushed PushesStayInPage ArithmeticExact LengthsMatchTable RegistersMatchTable
