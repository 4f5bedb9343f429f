SPECIFICATION Spec
CONSTANT Graphs <- LoadingFunctions
INVARIANT BodyLoadsStayBehindTheTest
