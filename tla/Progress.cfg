SPECIFICATION MCSpec
PROPERTIES ThreadsReturn WorkResumes
CHECK_DEADLOCK FALSE
